---- MODULE Spec2Model ----
(***************************************************************************)
(* Verification model of kalshihub: the Market scoring properties and the  *)
(* Orderbook analytics of src/kalshi/service.py, and the Firestore write   *)
(* trigger of src/functions/market_event_processor/main.py.                *)
(*                                                                         *)
(* Numbers.  Python floats that the code builds from integers by + - * /   *)
(* are modelled as exact rationals <<n, d>> (d > 0, lowest terms).  An     *)
(* Optional value is <<>> (None) or <<v>>.  Instants are integer seconds.  *)
(***************************************************************************)
EXTENDS Integers, Sequences, FiniteSets, TLC

VARIABLES
    orderbook,   \* the Orderbook under analysis (yes / no ladders)
    analytics,   \* the Orderbook properties last computed, <<>> before that
    rescored,    \* the last result of update_score_with_orderbook, <<>> before
    market,      \* the Market dataclass instance (the fields scoring reads)
    clock,       \* the wall clock, datetime.now(timezone.utc), in seconds
    pc,          \* position of the score evaluation in progress
    nowReads,    \* the instants the evaluation in progress has read
    partial,     \* raw_score held by an evaluation of score in progress
    lastRead,    \* the last property read: which, its result, the instants
    scores,      \* the sub-scores last computed for market, <<>> before
    exchange,    \* the open markets the exchange holds and how it ends a listing
    fetch,       \* the getAllOpenMarkets call: its locals, its calls, its result
    limiter,     \* the rate limiter of a KalshiAPIService and its callers
    crawler,     \* a MarketCrawler._upsert_markets call and its market_dao
    runner,      \* a KalshihubServiceRunner and its start / shutdown calls
    event,       \* the Firestore write event handed to process_market_event
    handled,     \* what process_market_event did with it, <<>> before
    doc,         \* the stored markets document of one ticker, <<>> if none
    pending,     \* write events on doc not yet delivered to the function
    runs         \* the runs of _fetch_orderbook_and_update_market so far

obVars == <<orderbook, analytics, rescored, exchange, fetch, limiter, crawler,
           runner>>
scVars == <<market, clock, pc, nowReads, partial, lastRead, scores>>
evVars == <<event, handled, doc, pending, runs>>
vars == <<orderbook, analytics, rescored, exchange, fetch, limiter, crawler,
          runner, market, clock, pc, nowReads,
          partial, lastRead, scores, event, handled, doc, pending, runs>>

(***************************************************************************)
(* Optional values                                                         *)
(***************************************************************************)
None == <<>>

Some(v) == <<v>>

IsNone(o) == o = <<>>

Val(o) == o[1]

(***************************************************************************)
(* Exact rationals                                                         *)
(***************************************************************************)
Abs(i) == IF i < 0 THEN -i ELSE i

Max(a, b) == IF a >= b THEN a ELSE b

Min(a, b) == IF a <= b THEN a ELSE b

\* A value used at several places of a definition is bound by x \in {e}.
RECURSIVE Gcd(_, _)
Gcd(a, b) == IF b = 0 THEN a ELSE Gcd(b, a % b)

\* the fraction n / d in lowest terms, d # 0
Rat(n, d) ==
    CHOOSE r \in
        { IF n = 0 THEN <<0, 1>>
          ELSE IF d < 0 THEN <<(-n) \div g, (-d) \div g>>
          ELSE <<n \div g, d \div g>> : g \in {Gcd(Abs(n), Abs(d))} } : TRUE

RInt(i) == <<i, 1>>

RAdd(a, b) == Rat(a[1] * b[2] + b[1] * a[2], a[2] * b[2])

RSub(a, b) == Rat(a[1] * b[2] - b[1] * a[2], a[2] * b[2])

RMul(a, b) == Rat(a[1] * b[1], a[2] * b[2])

RLe(a, b) == a[1] * b[2] <= b[1] * a[2]

RLt(a, b) == a[1] * b[2] < b[1] * a[2]

RAbs(a) == <<Abs(a[1]), a[2]>>

RMax(a, b) == IF RLe(b, a) THEN a ELSE b

RMin(a, b) == IF RLe(a, b) THEN a ELSE b

RZero == <<0, 1>>

ROne == <<1, 1>>

\* max(0.0, min(1.0, x))
Clip01(x) == RMax(RZero, RMin(ROne, x))

RECURSIVE SumCounts(_)
SumCounts(levels) ==
    IF levels = <<>> THEN 0 ELSE Head(levels).count + SumCounts(Tail(levels))

\* sum(level.count for level in levels if level.price >= threshold)
RECURSIVE SumCountsFrom(_, _)
SumCountsFrom(levels, threshold) ==
    IF levels = <<>> THEN 0
    ELSE (IF Head(levels).price >= threshold THEN Head(levels).count ELSE 0)
         + SumCountsFrom(Tail(levels), threshold)

\* levels[-N:]
LastN(levels, N) ==
    IF N = 0 THEN levels
    ELSE SubSeq(levels, Max(1, Len(levels) - N + 1), Len(levels))

(***************************************************************************)
(* Orderbook analytics (class Orderbook)                                   *)
(***************************************************************************)
K_DEPTH == 5

N_TOP == 5

best_yes_bid(ob) == IF ob.yes = <<>> THEN None ELSE Some(ob.yes[1].price)

best_yes_bid_qty(ob) == IF ob.yes = <<>> THEN None ELSE Some(ob.yes[1].count)

best_no_bid(ob) == IF ob.no = <<>> THEN None ELSE Some(ob.no[1].price)

best_no_bid_qty(ob) == IF ob.no = <<>> THEN None ELSE Some(ob.no[1].count)

\* faulty variant: the best NO bid taken as the YES ask, not complemented
yes_ask_l1_no_complement(ob) == best_no_bid(ob)

yes_ask_l1(ob) ==
    IF IsNone(best_no_bid(ob)) THEN None ELSE Some(100 - Val(best_no_bid(ob)))

yes_ask_l1_qty(ob) == IF ob.no = <<>> THEN None ELSE best_no_bid_qty(ob)

\* faulty variant: an unavailable spread reported as 0
ob_spread_default0(ob) ==
    IF IsNone(yes_ask_l1(ob)) \/ IsNone(best_yes_bid(ob)) THEN Some(0)
    ELSE Some(Val(yes_ask_l1(ob)) - Val(best_yes_bid(ob)))

ob_spread(ob) ==
    IF IsNone(yes_ask_l1(ob)) \/ IsNone(best_yes_bid(ob)) THEN None
    ELSE Some(Val(yes_ask_l1(ob)) - Val(best_yes_bid(ob)))

\* faulty variant: the mid price rounded up
ob_mid_ceil(ob) ==
    IF IsNone(yes_ask_l1(ob)) \/ IsNone(best_yes_bid(ob)) THEN None
    ELSE LET s == Val(yes_ask_l1(ob)) + Val(best_yes_bid(ob))
         IN  Some((s + 1) \div 2)

\* Python // and TLA+ \div are both floor division
ob_mid(ob) ==
    IF IsNone(yes_ask_l1(ob)) \/ IsNone(best_yes_bid(ob)) THEN None
    ELSE LET s == Val(yes_ask_l1(ob)) + Val(best_yes_bid(ob))
         IN  Some(s \div 2)

\* faulty variant: the threshold is best_no_bid - K
depth_ask_withinK_one_more(ob, K) ==
    IF ob.no = <<>> THEN 0
    ELSE SumCountsFrom(ob.no, Val(best_no_bid(ob)) - K)

depth_ask_withinK(ob, K) ==
    IF ob.no = <<>> THEN 0
    ELSE SumCountsFrom(ob.no, Val(best_no_bid(ob)) - (K - 1))

depth_bid_withinK(ob, K) ==
    IF ob.yes = <<>> THEN 0
    ELSE SumCountsFrom(ob.yes, Val(best_yes_bid(ob)) - (K - 1))

depth_yes_topN(ob, N) ==
    IF ob.yes = <<>> THEN 0
    ELSE SumCounts(IF Len(ob.yes) > N THEN LastN(ob.yes, N) ELSE ob.yes)

depth_no_topN(ob, N) ==
    IF ob.no = <<>> THEN 0
    ELSE SumCounts(IF Len(ob.no) > N THEN LastN(ob.no, N) ELSE ob.no)

bid_depth(ob) == depth_yes_topN(ob, N_TOP)

\* faulty variant: the ask depth is the top-N depth of the NO side
ask_depth_topN(ob) == depth_no_topN(ob, N_TOP)

ask_depth(ob) == depth_ask_withinK(ob, K_DEPTH)

obi(ob) ==
    LET bid == bid_depth(ob)
        ask == ask_depth(ob)
        total == bid + ask
    IN  IF total = 0 THEN None ELSE Some(Rat(bid - ask, Max(1, total)))

\* faulty variant: each leg is weighted with the quantity of its own level
micro_own_qty(ob) ==
    IF IsNone(yes_ask_l1(ob)) \/ IsNone(best_yes_bid(ob))
       \/ IsNone(yes_ask_l1_qty(ob))
    THEN None
    ELSE LET qty_ask == Val(yes_ask_l1_qty(ob))
             qty_bid == Val(best_yes_bid_qty(ob))
         IN  IF qty_ask + qty_bid = 0 THEN None
             ELSE Some(Rat(Val(yes_ask_l1(ob)) * qty_ask
                           + Val(best_yes_bid(ob)) * qty_bid,
                           Max(1, qty_ask + qty_bid)))

micro(ob) ==
    IF IsNone(yes_ask_l1(ob)) \/ IsNone(best_yes_bid(ob))
       \/ IsNone(yes_ask_l1_qty(ob))
    THEN None
    ELSE LET qty_yes_l1 == Val(yes_ask_l1_qty(ob))
             total_qty == qty_yes_l1 + qty_yes_l1
             numerator == Val(yes_ask_l1(ob)) * qty_yes_l1
                          + Val(best_yes_bid(ob)) * qty_yes_l1
         IN  IF total_qty = 0 THEN None
             ELSE Some(Rat(numerator, Max(1, total_qty)))

micro_tilt(ob) ==
    IF IsNone(micro(ob)) \/ IsNone(ob_mid(ob)) THEN None
    ELSE Some(RSub(Val(micro(ob)), RInt(Val(ob_mid(ob)))))

(***************************************************************************)
(* Float values that involve math.exp.  A value is a sum of terms          *)
(* coef * exp(-arg), kept as a sequence of [coef, arg] with coef # 0 and   *)
(* arg >= 0, ordered by arg; <<>> is 0.0.  exp(-arg) itself is the IEEE    *)
(* double result: it is 0.0 once arg exceeds 1075 * ln 2 = 745.1332...     *)
(***************************************************************************)
VZero == <<>>

VRat(r) == IF r[1] = 0 THEN <<>> ELSE <<[coef |-> r, arg |-> RZero]>>

\* math.exp(-arg) for a rational arg >= 0
ExpNeg(arg) ==
    IF RLt(<<1862833, 2500>>, arg) THEN VZero
    ELSE <<[coef |-> ROne, arg |-> arg]>>

\* r * v for a rational r
RECURSIVE VScale(_, _)
VScale(r, v) ==
    IF v = <<>> \/ r[1] = 0 THEN <<>>
    ELSE <<[coef |-> RMul(r, Head(v).coef), arg |-> Head(v).arg]>>
         \o VScale(r, Tail(v))

\* v1 + v2, merging terms of equal arg and keeping the order by arg
RECURSIVE VAdd(_, _)
VAdd(v1, v2) ==
    IF v1 = <<>> THEN v2
    ELSE IF v2 = <<>> THEN v1
    ELSE IF Head(v1).arg = Head(v2).arg
         THEN (IF RAdd(Head(v1).coef, Head(v2).coef)[1] = 0 THEN <<>>
               ELSE <<[coef |-> RAdd(Head(v1).coef, Head(v2).coef),
                       arg |-> Head(v1).arg]>>)
              \o VAdd(Tail(v1), Tail(v2))
    ELSE IF RLt(Head(v1).arg, Head(v2).arg)
         THEN <<Head(v1)>> \o VAdd(Tail(v1), v2)
    ELSE <<Head(v2)>> \o VAdd(v1, Tail(v2))

\* every term is positive, so the value is > 0
RECURSIVE VAllPos(_)
VAllPos(v) == v = <<>> \/ (Head(v).coef[1] > 0 /\ VAllPos(Tail(v)))

VPositive(v) == v # <<>> /\ VAllPos(v)

RECURSIVE VCoefSum(_)
VCoefSum(v) ==
    IF v = <<>> THEN RZero ELSE RAdd(Head(v).coef, VCoefSum(Tail(v)))

\* 0 <= v <= 1 follows from positive terms whose coefficients sum to <= 1
VInUnit(v) == VAllPos(v) /\ RLe(VCoefSum(v), ROne)

(***************************************************************************)
(* float(str): strings are sequences of characters                         *)
(***************************************************************************)
Digits == {"0", "1", "2", "3", "4", "5", "6", "7", "8", "9"}

DigitVal(c) ==
    CASE c = "0" -> 0 [] c = "1" -> 1 [] c = "2" -> 2 [] c = "3" -> 3
      [] c = "4" -> 4 [] c = "5" -> 5 [] c = "6" -> 6 [] c = "7" -> 7
      [] c = "8" -> 8 [] c = "9" -> 9

\* the digits of s read as a decimal number
RECURSIVE DigitsValue(_, _)
DigitsValue(s, acc) ==
    IF s = <<>> THEN acc ELSE DigitsValue(Tail(s), acc * 10 + DigitVal(Head(s)))

RECURSIVE Pow10(_)
Pow10(n) == IF n = 0 THEN 1 ELSE 10 * Pow10(n - 1)

AllDigits(s) == \A i \in 1..Len(s) : s[i] \in Digits

\* float(s) for a str s: Some(rational), or None when float raises
\* ValueError.  Decimal notation [sign] digits [. digits].
ParseFloat(s) ==
    LET neg == Len(s) > 0 /\ s[1] = "-"
        signed == Len(s) > 0 /\ s[1] \in {"-", "+"}
        body == IF signed THEN Tail(s) ELSE s
        dots == {i \in 1..Len(body) : body[i] = "."}
        ip == IF dots = {} THEN body
              ELSE SubSeq(body, 1, (CHOOSE i \in dots : TRUE) - 1)
        fp == IF dots = {} THEN <<>>
              ELSE SubSeq(body, (CHOOSE i \in dots : TRUE) + 1, Len(body))
        wellformed == /\ Cardinality(dots) <= 1
                      /\ AllDigits(ip) /\ AllDigits(fp)
                      /\ Len(ip) + Len(fp) > 0
        mag == Rat(DigitsValue(ip \o fp, 0), Pow10(Len(fp)))
    IN  IF ~wellformed THEN None
        ELSE Some(IF neg THEN RSub(RZero, mag) ELSE mag)

(***************************************************************************)
(* Results of a property read: a value or a raised exception               *)
(***************************************************************************)
Ret(v) == [exc |-> "", val |-> v]

Raise(e) == [exc |-> e, val |-> <<>>]

(***************************************************************************)
(* Market scoring (class Market)                                           *)
(***************************************************************************)
S_MAX == 8

NORM_K == 1000

KAPPA == 15

P_MAX == 15

LIQUIDITY_CAP == 500

TAU_UPD == 300

W_TAKER == <<3, 5>>

W_MAKER == <<2, 5>>

K_LIQ == 1000

K_LIQ_SUM == 2000

DELTA == <<3, 2>>

mid(m) == (m.yes_bid + m.yes_ask) \div 2

spread(m) == m.yes_ask - m.yes_bid

spread_score(m) == Clip01(RSub(ROne, Rat(spread(m), S_MAX)))

_norm(x) == Rat(x, x + NORM_K)

\* faulty variant: a change of last_price alone goes unnoticed
_has_price_changed_quotes_only(m) ==
    \/ m.yes_bid # m.previous_yes_bid
    \/ m.yes_ask # m.previous_yes_ask

_has_price_changed(m) ==
    \/ m.yes_bid # m.previous_yes_bid
    \/ m.yes_ask # m.previous_yes_ask
    \/ m.last_price # m.previous_price

activity_score(m) ==
    LET norm_volume == _norm(m.volume_24h)
        norm_open_interest == _norm(m.open_interest)
        freshness_score == IF _has_price_changed(m) THEN ROne ELSE norm_volume
    IN  RAdd(RAdd(RMul(<<3, 10>>, norm_volume),
                  RMul(<<3, 10>>, norm_open_interest)),
             RMul(<<4, 10>>, freshness_score))

moneyness_score(m) == ExpNeg(Rat(Abs(mid(m) - 50), KAPPA))

\* ALPHA = BETA = GAMMA = 1.0, and x ** 1.0 = x
taker_potential(m) ==
    VScale(RMul(spread_score(m), activity_score(m)), moneyness_score(m))

parity_slack(m) == Clip01(Rat(spread(m), P_MAX))

\* the try/except around float(self.liquidity_dollars)
liquidity_value(m) ==
    CHOOSE r \in {IF IsNone(f) THEN RZero ELSE Val(f) :
                     f \in {ParseFloat(m.liquidity_dollars)}} : TRUE

\* exp(-stale/TAU_UPD) with stale = max(0, now - updated_at); 0.0 without
\* updated_at
stability_score(m, now) ==
    IF IsNone(m.updated_at) THEN VZero
    ELSE ExpNeg(Rat(Max(0, now - Val(m.updated_at)), TAU_UPD))

\* liquidity_value / (liquidity_value + LIQUIDITY_CAP): a float division,
\* ZeroDivisionError when liquidity_value = -LIQUIDITY_CAP
liquidity_score(m) ==
    CHOOSE r \in
        { IF lv[1] + LIQUIDITY_CAP * lv[2] = 0
          THEN Raise("ZeroDivisionError")
          ELSE Ret(Rat(lv[1] * lv[2],
                       lv[2] * (lv[1] + LIQUIDITY_CAP * lv[2]))) :
            lv \in {liquidity_value(m)} } : TRUE

\* MAKER_ALPHA = MAKER_BETA = 1.0, and x ** 1.0 = x
maker_potential(m, now) ==
    CHOOSE r \in
        { IF ls.exc # "" THEN ls
          ELSE Ret(VScale(RMul(parity_slack(m), ls.val),
                          stability_score(m, now))) :
            ls \in {liquidity_score(m)} } : TRUE

\* hours from now to close_time, never negative
tt_close(m, now) == RMax(RZero, Rat(m.close_time - now, 3600))

\* faulty variant: tt_close not tested for > 0, a closed market weighs 1.0
time_to_close_weight_closed_first(m, now) ==
    LET t == tt_close(m, now)
    IN  IF RLe(t, RInt(2)) THEN ROne
        ELSE IF RLe(t, RInt(8)) THEN <<7, 10>>
        ELSE IF RLe(t, RInt(24)) THEN <<2, 5>>
        ELSE <<1, 5>>

time_to_close_weight(m, now) ==
    LET t == tt_close(m, now)
    IN  IF RLt(RZero, t) /\ RLe(t, RInt(2)) THEN ROne
        ELSE IF RLt(RInt(2), t) /\ RLe(t, RInt(8)) THEN <<7, 10>>
        ELSE IF RLt(RInt(8), t) /\ RLe(t, RInt(24)) THEN <<2, 5>>
        ELSE <<1, 5>>

\* faulty variant: the two potentials added without their weights
raw_score_unweighted(m, now) ==
    CHOOSE r \in
        { IF mp.exc # "" THEN mp
          ELSE Ret(VAdd(taker_potential(m), mp.val)) :
            mp \in {maker_potential(m, now)} } : TRUE

raw_score(m, now) ==
    CHOOSE r \in
        { IF mp.exc # "" THEN mp
          ELSE Ret(VAdd(VScale(W_TAKER, taker_potential(m)),
                        VScale(W_MAKER, mp.val))) :
            mp \in {maker_potential(m, now)} } : TRUE

\* score reads the clock twice: maker_potential (through raw_score) at
\* nowMaker, then tt_close (through time_to_close_weight) at nowClose
score(m, nowMaker, nowClose) ==
    CHOOSE r \in
        { IF rs.exc # "" THEN rs
          ELSE Ret(VScale(time_to_close_weight(m, nowClose), rs.val)) :
            rs \in {raw_score(m, nowMaker)} } : TRUE

(***************************************************************************)
(* Market.update_score_with_orderbook                                      *)
(***************************************************************************)
\* lines 395-399: max(0.0, min(1.0, 0.5 + micro_tilt / (2 * DELTA)))
S_micro_tilt(ob) ==
    LET tilt == IF IsNone(micro_tilt(ob)) THEN RZero ELSE Val(micro_tilt(ob))
    IN  Clip01(RAdd(<<1, 2>>,
                    Rat(tilt[1] * DELTA[2], tilt[2] * 2 * DELTA[1])))

\* faulty variant: the depth factor max(D_ask, D_bid) left out of the product
orderbook_taker_potential_nodepth(ob) ==
    LET sp == IF IsNone(ob_spread(ob)) THEN 0 ELSE Val(ob_spread(ob))
        S_spread_narrow == Clip01(RSub(ROne, Rat(sp, S_MAX)))
    IN  RMul(S_spread_narrow, S_micro_tilt(ob))

\* lines 372-402: the taker potential from depth, spread and micro tilt
orderbook_taker_potential(ob) ==
    LET depth_ask == depth_ask_withinK(ob, K_DEPTH)
        depth_bid == depth_bid_withinK(ob, K_DEPTH)
        D_ask == Rat(depth_ask, depth_ask + K_LIQ)
        D_bid == Rat(depth_bid, depth_bid + K_LIQ)
        sp == IF IsNone(ob_spread(ob)) THEN 0 ELSE Val(ob_spread(ob))
        S_spread_narrow == Clip01(RSub(ROne, Rat(sp, S_MAX)))
    IN  RMul(RMul(S_spread_narrow, RMax(D_ask, D_bid)), S_micro_tilt(ob))

\* lines 374-403: the maker potential from total depth, spread and imbalance
orderbook_maker_potential(ob) ==
    LET depth_total == depth_yes_topN(ob, N_TOP) + depth_no_topN(ob, N_TOP)
        D_total == Rat(depth_total, depth_total + K_LIQ_SUM)
        sp == IF IsNone(ob_spread(ob)) THEN 0 ELSE Val(ob_spread(ob))
        S_spread_wide == Clip01(Rat(sp, P_MAX))
        ob_i == IF IsNone(obi(ob)) THEN RZero ELSE Val(obi(ob))
        S_obi_balance == RSub(ROne, RAbs(ob_i))
    IN  RMul(RMul(S_spread_wide, D_total), S_obi_balance)

update_score_with_orderbook(m, ob, now) ==
    LET taker == orderbook_taker_potential(ob)
        maker == orderbook_maker_potential(ob)
        raw == RAdd(RMul(W_TAKER, taker), RMul(W_MAKER, maker))
    IN  [taker_potential |-> taker,
         maker_potential |-> maker,
         raw_score |-> raw,
         score_enhanced |-> RMul(raw, time_to_close_weight(m, now))]

(***************************************************************************)
(* Inputs                                                                  *)
(***************************************************************************)
MaxLevels == 2

\* price levels: around 50 cents, more than K_DEPTH - 1 apart or not, with
\* and without resting quantity
Levels ==
    { [price |-> 52, count |-> 100], [price |-> 52, count |-> 0],
      [price |-> 50, count |-> 300], [price |-> 47, count |-> 300],
      [price |-> 45, count |-> 100] }

\* the depth methods are called with K in 1..MaxK and N in 0..MaxN
MaxK == 4

MaxN == 3

Ladders == UNION {[1..n -> Levels] : n \in 0..MaxLevels}

\* the "yes" / "no" arrays of [price, count] of an orderbook response
ApiLadders ==
    UNION {[1..n -> {<<l.price, l.count>> : l \in Levels}] : n \in 0..MaxLevels}

\* [OrderbookLevel(price=int(level[0]), count=int(level[1])) for level in ...]
parse_levels(raw) ==
    [i \in 1..Len(raw) |-> [price |-> raw[i][1], count |-> raw[i][2]]]

\* the Orderbook get_market_orderbook builds from the response: the levels
\* of each side in the order of the response
get_market_orderbook(data) ==
    [yes |-> parse_levels(data.yes), no |-> parse_levels(data.no)]

Orderbooks ==
    {get_market_orderbook(data) : data \in [yes : ApiLadders, no : ApiLadders]}

\* close_time of the market, and the instants the clock takes
Hour == 3600

CloseTimes == {0, 2 * Hour, 8 * Hour, 24 * Hour}

OrderbookCloseTimes == {2 * Hour, 24 * Hour}

LiquidityStrings ==
    { <<"2", "0", ".", "0", "0">>,
      <<"5", "0", "0", ".", "0", "0">>,
      <<"0", ".", "0", "0">>,
      <<"i", "n", "v", "a", "l", "i", "d">>,
      <<"-", "2", "0", ".", "0", "0">>,
      <<"-", "5", "0", "0">> }

TestMarket ==
    [yes_bid |-> 45, yes_ask |-> 50, last_price |-> 48,
     previous_yes_bid |-> 45, previous_yes_ask |-> 50, previous_price |-> 48,
     volume_24h |-> 1000, open_interest |-> 1000,
     liquidity_dollars |-> <<"2", "0", ".", "0", "0">>,
     close_time |-> 2 * Hour, updated_at |-> Some(0)]

NoRead == [prop |-> "", res |-> Ret(VZero), now |-> <<>>]

ScoreIdle ==
    /\ market = TestMarket /\ clock = 0 /\ pc = "idle"
    /\ nowReads = <<>> /\ partial = Ret(VZero)
    /\ lastRead = NoRead /\ scores = <<>>

OrderbookIdle == orderbook = [yes |-> <<>>, no |-> <<>>]
                 /\ analytics = <<>> /\ rescored = <<>>

NoFetch == [pc |-> "idle", cursor |-> <<>>, all_markets |-> <<>>,
            requests |-> <<>>, responses |-> <<>>, result |-> <<>>]

ServiceIdle == limiter = <<>> /\ crawler = <<>> /\ runner = <<>>

FetchIdle ==
    exchange = [total |-> 0, last |-> <<>>] /\ fetch = NoFetch /\ ServiceIdle

NoEvent == [collection |-> "", old |-> <<>>, new |-> <<>>, failing |-> {}]

StoreIdle == doc = <<>> /\ pending = {} /\ runs = <<>>

TriggerIdle == event = NoEvent /\ handled = <<>> /\ StoreIdle

(***************************************************************************)
(* Specification of the Orderbook analytics and the orderbook rescoring:   *)
(* an orderbook as get_market_orderbook may deliver it and a market with   *)
(* some close_time; the properties are computed and the market rescored.   *)
(***************************************************************************)
InitOrderbook ==
    /\ orderbook \in Orderbooks
    /\ analytics = <<>> /\ rescored = <<>>
    /\ market \in {[TestMarket EXCEPT !.close_time = c] :
                      c \in OrderbookCloseTimes}
    /\ clock = Hour
    /\ pc = "idle" /\ nowReads = <<>> /\ partial = Ret(VZero)
    /\ lastRead = NoRead /\ scores = <<>>
    /\ FetchIdle
    /\ TriggerIdle

\* every derived property of the Orderbook dataclass is read
ReadAnalytics ==
    /\ analytics = <<>>
    /\ analytics' = <<[best_yes_bid |-> best_yes_bid(orderbook),
                       best_no_bid |-> best_no_bid(orderbook),
                       yes_ask_l1 |-> yes_ask_l1(orderbook),
                       yes_ask_l1_qty |-> yes_ask_l1_qty(orderbook),
                       spread |-> ob_spread(orderbook),
                       mid |-> ob_mid(orderbook),
                       depth_ask_withinK |->
                           [K \in 1..MaxK |-> depth_ask_withinK(orderbook, K)],
                       depth_bid_withinK |->
                           [K \in 1..MaxK |-> depth_bid_withinK(orderbook, K)],
                       depth_yes_topN |->
                           [N \in 0..MaxN |-> depth_yes_topN(orderbook, N)],
                       depth_no_topN |->
                           [N \in 0..MaxN |-> depth_no_topN(orderbook, N)],
                       bid_depth |-> bid_depth(orderbook),
                       ask_depth |-> ask_depth(orderbook),
                       best_yes_bid_qty |-> best_yes_bid_qty(orderbook),
                       obi |-> obi(orderbook),
                       micro |-> micro(orderbook),
                       micro_tilt |-> micro_tilt(orderbook)]>>
    /\ UNCHANGED <<orderbook, rescored, exchange, fetch,
                 limiter, crawler, runner>>
    /\ UNCHANGED scVars
    /\ UNCHANGED evVars

\* market.update_score_with_orderbook(orderbook)
Rescore ==
    /\ rescored = <<>>
    /\ rescored' = <<update_score_with_orderbook(market, orderbook, clock)>>
    /\ UNCHANGED <<orderbook, analytics, exchange, fetch,
                 limiter, crawler, runner>>
    /\ UNCHANGED scVars
    /\ UNCHANGED evVars

NextOrderbook == ReadAnalytics \/ Rescore

SpecOrderbook == InitOrderbook /\ [][NextOrderbook]_vars

(***************************************************************************)
(* Claims on the Orderbook analytics and the rescoring                     *)
(***************************************************************************)
SideEmpty == orderbook.yes = <<>> \/ orderbook.no = <<>>

BothEmpty == orderbook.yes = <<>> /\ orderbook.no = <<>>

\* C3: when the YES side or the NO side has no levels, spread, mid, micro
\* and micro_tilt are all None, never 0; with both sides non-empty spread
\* and mid are integers; micro_tilt is None whenever micro or mid is None.
C3_AbsentNotZero ==
    analytics # <<>> =>
        LET a == analytics[1]
        IN  /\ SideEmpty =>
                /\ a.spread = None /\ a.mid = None
                /\ a.micro = None /\ a.micro_tilt = None
                /\ a.spread # Some(0) /\ a.mid # Some(0)
                /\ a.micro # Some(RZero) /\ a.micro_tilt # Some(RZero)
            /\ ~SideEmpty =>
                /\ a.spread # None /\ Val(a.spread) \in Int
                /\ a.mid # None /\ Val(a.mid) \in Int
            /\ (a.micro = None \/ a.mid = None) => a.micro_tilt = None

\* a one-sided book whose properties have been read
C3_Witness ==
    /\ analytics # <<>>
    /\ orderbook.yes # <<>> /\ orderbook.no = <<>>
    /\ analytics[1].spread = None

\* C4: rescoring against an orderbook with both sides empty returns
\* taker_potential = maker_potential = raw_score = score_enhanced = 0.0
\* although spread, mid and obi are None.
C4_EmptyBookScoresZero ==
    (rescored # <<>> /\ BothEmpty) =>
        /\ rescored[1].taker_potential = RZero
        /\ rescored[1].maker_potential = RZero
        /\ rescored[1].raw_score = RZero
        /\ rescored[1].score_enhanced = RZero
        /\ ob_spread(orderbook) = None
        /\ ob_mid(orderbook) = None
        /\ obi(orderbook) = None

C4_Witness == rescored # <<>> /\ BothEmpty /\ analytics # <<>>

\* C5: for every orderbook whose spread is None the rescored
\* taker_potential is 0.0 (a missing spread is not a perfect spread).
C5_MissingSpreadNoTaker ==
    (rescored # <<>> /\ ob_spread(orderbook) = None) =>
        rescored[1].taker_potential = RZero

(***************************************************************************)
(* Specification of the sub-scores as functions of a Market and an         *)
(* instant: the market fields are drawn from bounded sets, the clock       *)
(* stands at some instant, and the sub-scores are computed.                *)
(***************************************************************************)
MaxClock == 1

YesBids == {45, 50}

YesAsks == {50, 60}

PreviousPrices == {48, 47}

Volumes == {0, 1000}

OpenInterests == {0, 1000}

SubscoreCloseTimes ==
    {0, 1, 2 * Hour, 2 * Hour + 1, 8 * Hour, 8 * Hour + 1,
     24 * Hour, 24 * Hour + 1}

\* never persisted; just refreshed; refreshed "in the future"; an hour ago;
\* and 62 hours ago, on both sides of the instant where exp underflows
UpdatedAts ==
    {None, Some(0), Some(1), Some(-Hour), Some(-223539), Some(-223540)}

Markets ==
    [yes_bid : YesBids, yes_ask : YesAsks, last_price : {48},
     previous_yes_bid : {45}, previous_yes_ask : {50},
     previous_price : PreviousPrices,
     volume_24h : Volumes, open_interest : OpenInterests,
     liquidity_dollars : LiquidityStrings,
     close_time : SubscoreCloseTimes, updated_at : UpdatedAts]

InitSubscores ==
    /\ market \in Markets
    /\ clock \in 0..MaxClock
    /\ scores = <<>>
    /\ pc = "idle" /\ nowReads = <<>> /\ partial = Ret(VZero)
    /\ lastRead = NoRead
    /\ OrderbookIdle /\ FetchIdle
    /\ TriggerIdle

\* the time weight and the maker-side sub-scores are computed at the instant
\* the clock shows
ReadSubscores ==
    /\ scores = <<>>
    /\ scores' = <<[now |-> clock,
                    tt_close |-> tt_close(market, clock),
                    time_to_close_weight |-> time_to_close_weight(market, clock),
                    liquidity_score |-> liquidity_score(market),
                    stability_score |-> stability_score(market, clock),
                    maker_potential |-> maker_potential(market, clock)]>>
    /\ UNCHANGED <<market, clock, pc, nowReads, partial, lastRead>>
    /\ UNCHANGED obVars
    /\ UNCHANGED evVars

\* the quote-side sub-scores, which read no clock
ReadQuoteScores ==
    /\ scores # <<>>
    /\ "taker_potential" \notin DOMAIN scores[1]
    /\ scores' = <<[now |-> scores[1].now,
                    tt_close |-> scores[1].tt_close,
                    time_to_close_weight |-> scores[1].time_to_close_weight,
                    liquidity_score |-> scores[1].liquidity_score,
                    stability_score |-> scores[1].stability_score,
                    maker_potential |-> scores[1].maker_potential,
                    spread_score |-> spread_score(market),
                    activity_score |-> activity_score(market),
                    moneyness_score |-> moneyness_score(market),
                    taker_potential |-> taker_potential(market),
                    raw_score |-> raw_score(market, scores[1].now),
                    score |-> score(market, scores[1].now, scores[1].now)]>>
    /\ UNCHANGED <<market, clock, pc, nowReads, partial, lastRead>>
    /\ UNCHANGED obVars
    /\ UNCHANGED evVars

NextSubscores == ReadSubscores \/ ReadQuoteScores

SpecSubscores == InitSubscores /\ [][NextSubscores]_vars

(***************************************************************************)
(* Claims on the sub-scores                                                *)
(***************************************************************************)
\* the step function of C8 on T = close_time - now, in seconds
StepWeight(T) ==
    IF 0 < T /\ T <= 2 * Hour THEN ROne
    ELSE IF 2 * Hour < T /\ T <= 8 * Hour THEN <<7, 10>>
    ELSE IF 8 * Hour < T /\ T <= 24 * Hour THEN <<2, 5>>
    ELSE <<1, 5>>

\* C8: time_to_close_weight is a step function of the time T from now to
\* close_time only: 1.0 for 0 < T <= 2h, 0.7 for 2h < T <= 8h, 0.4 for
\* 8h < T <= 24h, 0.2 otherwise, also for T <= 0; it never increases as
\* T > 0 grows, and a closed market weighs what a far-future one weighs.
C8_TimeWeightStep ==
    scores # <<>> =>
        LET T == market.close_time - scores[1].now
            w == scores[1].time_to_close_weight
        IN  /\ w = StepWeight(T)
            /\ T <= 0 => w = <<1, 5>>
            /\ w = time_to_close_weight(
                       [TestMarket EXCEPT !.close_time = market.close_time],
                       scores[1].now)
            /\ \A c \in SubscoreCloseTimes :
                  (0 < T /\ T <= c - scores[1].now) =>
                      RLe(time_to_close_weight(
                              [market EXCEPT !.close_time = c], scores[1].now),
                          w)
            /\ (T <= 0 \/ T > 24 * Hour) => w = <<1, 5>>

\* the weight of a market that closed a second ago has been computed
C8_Witness ==
    /\ scores # <<>>
    /\ market.close_time - scores[1].now < 0
    /\ scores[1].time_to_close_weight = <<1, 5>>

\* C9: the liquidity sub-score is L/(L+500) for a liquidity_dollars that
\* parses to L > 0 and 0 for one that is unparsable, zero or negative, and
\* maker_potential raises no exception.
C9_LiquidityScore ==
    scores # <<>> =>
        LET p == ParseFloat(market.liquidity_dollars)
            ls == scores[1].liquidity_score
        IN  /\ ls.exc = ""
            /\ scores[1].maker_potential.exc = ""
            /\ (p # None /\ RLt(RZero, Val(p))) =>
                   ls.val = Rat(Val(p)[1],
                                Val(p)[1] + LIQUIDITY_CAP * Val(p)[2])
            /\ (p = None \/ RLe(Val(p), RZero)) => ls.val = RZero

\* C10: without updated_at the stability factor is exactly 0 and so is
\* maker_potential, whatever the other fields; with updated_at the
\* stability factor lies in (0, 1] and does not grow with staleness, so an
\* absent updated_at scores strictly below every finite staleness.
C10_Stability ==
    scores # <<>> =>
        LET st == scores[1].stability_score
            mp == scores[1].maker_potential
        IN  /\ market.updated_at = None =>
                   /\ st = VZero
                   /\ mp.exc = "" /\ mp.val = VZero
            /\ market.updated_at # None =>
                   /\ VPositive(st) /\ VInUnit(st)
                   /\ \A u \in UpdatedAts \ {None} :
                         Val(u) <= Val(market.updated_at) =>
                         LET older == stability_score(
                                 [market EXCEPT !.updated_at = u],
                                 scores[1].now)
                         IN  older = VZero
                             \/ RLe(st[1].arg, older[1].arg)

(***************************************************************************)
(* Specification of reading the score properties of one Market instance    *)
(* while its fields are reassigned and the wall clock advances.  Reading   *)
(* score takes two steps, one per datetime.now() call it makes: raw_score  *)
(* (whose maker_potential reads the clock), then time_to_close_weight      *)
(* (whose tt_close reads the clock again).                                 *)
(***************************************************************************)
MaxTicks == 2

ScoreYesAsks == {50, 60}

ScoreLiquidityStrings ==
    { <<"2", "0", ".", "0", "0">>, <<"0", ".", "0", "0">>,
      <<"-", "5", "0", "0">> }

ScoreCloseTimes == {2 * Hour, 2 * Hour + 1}

ScoreUpdatedAts == {Some(0), None}

InitScore ==
    /\ market = TestMarket
    /\ clock = 0
    /\ pc = "idle" /\ nowReads = <<>> /\ partial = Ret(VZero)
    /\ lastRead = NoRead
    /\ scores = <<>>
    /\ OrderbookIdle /\ FetchIdle
    /\ TriggerIdle

\* the wall clock advances, also while a property is being evaluated
Tick ==
    /\ clock < MaxTicks
    /\ clock' = clock + 1
    /\ UNCHANGED <<market, pc, nowReads, partial, lastRead, scores>>
    /\ UNCHANGED obVars
    /\ UNCHANGED evVars

\* market.<field> = value, between two property reads
SetField ==
    /\ pc = "idle"
    /\ \/ \E v \in ScoreYesAsks : market' = [market EXCEPT !.yes_ask = v]
       \/ \E v \in PreviousPrices :
              market' = [market EXCEPT !.previous_price = v]
       \/ \E v \in ScoreLiquidityStrings :
              market' = [market EXCEPT !.liquidity_dollars = v]
       \/ \E v \in ScoreCloseTimes : market' = [market EXCEPT !.close_time = v]
       \/ \E v \in ScoreUpdatedAts : market' = [market EXCEPT !.updated_at = v]
    /\ market' # market
    /\ UNCHANGED <<clock, pc, nowReads, partial, lastRead, scores>>
    /\ UNCHANGED obVars
    /\ UNCHANGED evVars

Returned(prop, res, nows) == [prop |-> prop, res |-> res, now |-> nows]

\* market.taker_potential
ReadTakerPotential ==
    /\ pc = "idle"
    /\ lastRead' = Returned("taker_potential", Ret(taker_potential(market)),
                            <<>>)
    /\ UNCHANGED <<market, clock, pc, nowReads, partial, scores>>
    /\ UNCHANGED obVars
    /\ UNCHANGED evVars

\* faulty variant: the value is computed on the first read and remembered
ReadMakerPotential_memoized ==
    /\ pc = "idle"
    /\ lastRead' =
           IF lastRead.prop = "maker_potential"
           THEN Returned("maker_potential", lastRead.res, <<clock>>)
           ELSE Returned("maker_potential", maker_potential(market, clock),
                         <<clock>>)
    /\ UNCHANGED <<market, clock, pc, nowReads, partial, scores>>
    /\ UNCHANGED obVars
    /\ UNCHANGED evVars

\* market.maker_potential
ReadMakerPotential ==
    /\ pc = "idle"
    /\ lastRead' = Returned("maker_potential", maker_potential(market, clock),
                            <<clock>>)
    /\ UNCHANGED <<market, clock, pc, nowReads, partial, scores>>
    /\ UNCHANGED obVars
    /\ UNCHANGED evVars

\* market.raw_score
ReadRawScore ==
    /\ pc = "idle"
    /\ lastRead' = Returned("raw_score", raw_score(market, clock), <<clock>>)
    /\ UNCHANGED <<market, clock, pc, nowReads, partial, scores>>
    /\ UNCHANGED obVars
    /\ UNCHANGED evVars

\* market.score, line 348: raw_score = self.raw_score; an exception of
\* maker_potential ends the read
ScoreRaw ==
    /\ pc = "idle"
    /\ LET rs == raw_score(market, clock)
       IN  IF rs.exc # ""
           THEN /\ lastRead' = Returned("score", rs, <<clock>>)
                /\ UNCHANGED <<pc, nowReads, partial>>
           ELSE /\ pc' = "time_weight"
                /\ nowReads' = <<clock>>
                /\ partial' = rs
                /\ UNCHANGED lastRead
    /\ UNCHANGED <<market, clock, scores>>
    /\ UNCHANGED obVars
    /\ UNCHANGED evVars

\* market.score, lines 349-353: time_weight = self.time_to_close_weight and
\* the product is returned
ScoreWeight ==
    /\ pc = "time_weight"
    /\ lastRead' = Returned("score",
                            Ret(VScale(time_to_close_weight(market, clock),
                                       partial.val)),
                            nowReads \o <<clock>>)
    /\ pc' = "idle"
    /\ nowReads' = <<>>
    /\ partial' = Ret(VZero)
    /\ UNCHANGED <<market, clock, scores>>
    /\ UNCHANGED obVars
    /\ UNCHANGED evVars

NextScore ==
    \/ Tick
    \/ SetField
    \/ ReadTakerPotential
    \/ ReadMakerPotential
    \/ ReadRawScore
    \/ ScoreRaw
    \/ ScoreWeight

SpecScore == InitScore /\ [][NextScore]_vars

(***************************************************************************)
(* Claims on reading the score properties                                  *)
(***************************************************************************)
\* C6: within one evaluation of score the current instant is read once:
\* time_to_close_weight and the stability factor of maker_potential use the
\* same now, even if the wall clock advances while the evaluation runs.
C6_OneInstantPerEvaluation ==
    (lastRead.prop = "score" /\ Len(lastRead.now) = 2) =>
        /\ lastRead.now[1] = lastRead.now[2]
        /\ lastRead.res = score(market, lastRead.now[1], lastRead.now[1])

\* what the property computes from fields m at the instants it read
PropertyValue(prop, m, nows) ==
    CASE prop = "taker_potential" -> Ret(taker_potential(m))
      [] prop = "maker_potential" -> maker_potential(m, nows[1])
      [] prop = "raw_score" -> raw_score(m, nows[1])
      [] prop = "score" -> score(m, nows[1], nows[Len(nows)])

Num(r) == [num |-> r]

StrV(chars) == [str |-> chars]

Ts(t) == [ts |-> t]

STR_closed == <<"c", "l", "o", "s", "e", "d">>

STR_halted == <<"h", "a", "l", "t", "e", "d">>

STR_open == <<"o", "p", "e", "n">>

STR_yes == <<"y", "e", "s">>

STR_no == <<"n", "o">>

\* the value of the field, None when the document has no such field
_get_field_value(fields, field_name) ==
    IF field_name \in DOMAIN fields THEN Some(fields[field_name]) ELSE None

_determine_change_type_from_dict(old_value, new_value) ==
    LET old_is_empty == DOMAIN old_value = {}
        new_is_empty == DOMAIN new_value = {}
    IN  IF old_is_empty /\ ~new_is_empty THEN "CREATE"
        ELSE IF ~old_is_empty /\ new_is_empty THEN "DELETE"
        ELSE "UPDATE"

significant_fields ==
    {"last_price", "last_price_dollars", "volume_24h", "yes_bid", "yes_ask",
     "no_bid", "no_ask"}

\* the keys of the dict `changes` of _publish_market_updated_from_dict
changes(old_fields, new_fields) ==
    {f \in {"status"} \cup significant_fields :
        _get_field_value(old_fields, f) # _get_field_value(new_fields, f)}

\* faulty variant: market.updated is published last
update_publications_updated_last(old_fields, new_fields) ==
    (IF _get_field_value(old_fields, "status")
        # _get_field_value(new_fields, "status")
        /\ _get_field_value(new_fields, "status")
           \in {Some(StrV(STR_closed)), Some(StrV(STR_halted))}
     THEN <<"market.closed">> ELSE <<>>)
    \o (IF _get_field_value(new_fields, "result")
           # _get_field_value(old_fields, "result")
           /\ _get_field_value(new_fields, "result")
              \in {Some(StrV(STR_yes)), Some(StrV(STR_no))}
        THEN <<"market.settled">> ELSE <<>>)
    \o (IF changes(old_fields, new_fields) # {}
        THEN <<"market.updated">> ELSE <<>>)

\* the event types _publish_market_updated_from_dict tries to publish, in
\* its order
update_publications(old_fields, new_fields) ==
    LET status_changed == _get_field_value(old_fields, "status")
                          # _get_field_value(new_fields, "status")
        new_status == _get_field_value(new_fields, "status")
        old_result == _get_field_value(old_fields, "result")
        new_result == _get_field_value(new_fields, "result")
    IN  (IF changes(old_fields, new_fields) # {}
         THEN <<"market.updated">> ELSE <<>>)
        \o (IF status_changed
               /\ new_status \in {Some(StrV(STR_closed)), Some(StrV(STR_halted))}
            THEN <<"market.closed">> ELSE <<>>)
        \o (IF new_result # old_result
               /\ new_result \in {Some(StrV(STR_yes)), Some(StrV(STR_no))}
            THEN <<"market.settled">> ELSE <<>>)

\* float(x) as lines 446-453 and 496-503 apply it to a score: Some(rational),
\* or None when the conversion raises ValueError or TypeError
ScoreFloat(v) ==
    IF "num" \in DOMAIN v THEN Some(v.num)
    ELSE IF "str" \in DOMAIN v THEN ParseFloat(v.str)
    ELSE None

orderbook_fields ==
    {"score_orderbook", "taker_potential_orderbook",
     "maker_potential_orderbook", "updated_at"}

changed_fields(old_fields, new_fields) ==
    IF DOMAIN old_fields = {} THEN {}
    ELSE {f \in DOMAIN new_fields :
             _get_field_value(old_fields, f) # _get_field_value(new_fields, f)}

SCORE_THRESHOLD == <<1, 10>>

\* faulty variant: an UPDATE triggers like a CREATE, on any new score above 0.1
_maybe_update_no_crossing(change_type, old_fields, new_fields) ==
    LET new_score == _get_field_value(new_fields, "score")
    IN  /\ new_score # None
        /\ ScoreFloat(Val(new_score)) # None
        /\ change_type \in {"CREATE", "UPDATE"}
        /\ RLt(SCORE_THRESHOLD, Val(ScoreFloat(Val(new_score))))

\* faulty variant: an UPDATE whose old score is exactly 0.1 counts as a
\* crossing of the threshold
_maybe_update_old_at_threshold(change_type, old_fields, new_fields) ==
    LET new_score == _get_field_value(new_fields, "score")
        old_score == _get_field_value(old_fields, "score")
    IN  /\ new_score # None /\ ScoreFloat(Val(new_score)) # None
        /\ change_type = "UPDATE"
        /\ old_score # None /\ ScoreFloat(Val(old_score)) # None
        /\ RLe(Val(ScoreFloat(Val(old_score))), SCORE_THRESHOLD)
        /\ RLe(SCORE_THRESHOLD, Val(ScoreFloat(Val(new_score))))

\* _maybe_update_score_with_orderbook: TRUE when it goes on to call
\* _update_market_score_with_orderbook.  old_fields is <<>> for a CREATE.
_maybe_update_score_with_orderbook(change_type, old_fields, new_fields) ==
    LET new_score == _get_field_value(new_fields, "score")
        new_score_float == ScoreFloat(Val(new_score))
        changed == changed_fields(old_fields, new_fields)
        old_score == _get_field_value(old_fields, "score")
        old_score_float ==
            IF old_score = None THEN None ELSE ScoreFloat(Val(old_score))
    IN  IF new_score = None THEN FALSE
        ELSE IF new_score_float = None THEN FALSE
        ELSE IF change_type = "CREATE"
             THEN RLt(SCORE_THRESHOLD, Val(new_score_float))
        ELSE IF change_type = "UPDATE"
             THEN IF changed # {} /\ changed \subseteq orderbook_fields
                  THEN FALSE
                  ELSE IF old_score_float # None
                       THEN /\ RLt(Val(old_score_float), SCORE_THRESHOLD)
                            /\ RLe(SCORE_THRESHOLD, Val(new_score_float))
                       ELSE RLe(SCORE_THRESHOLD, Val(new_score_float))
        ELSE FALSE

\* the publications that succeed, while none that must succeed has failed
RECURSIVE Delivered(_, _)
Delivered(types, failing) ==
    IF types = <<>> THEN <<>>
    ELSE IF Head(types) \in failing
         THEN (IF Head(types) \in {"market.created", "market.updated"}
               THEN <<>> ELSE Delivered(Tail(types), failing))
    ELSE <<Head(types)>> \o Delivered(Tail(types), failing)

\* process_market_event on a write of a document of `collection`, when the
\* publish calls for the event types in `failing` raise.  A failed publish
\* of market.created or market.updated is re-raised and ends the handler
\* in its except clause, before the score check.
process_market_event(ev) ==
    LET change_type == _determine_change_type_from_dict(ev.old, ev.new)
        attempts == IF change_type = "CREATE" THEN <<"market.created">>
                    ELSE IF change_type = "UPDATE"
                         THEN update_publications(ev.old, ev.new)
                    ELSE <<>>
        aborted == attempts # <<>>
                   /\ Head(attempts) \in {"market.created", "market.updated"}
                   /\ Head(attempts) \in ev.failing
    IN  IF ev.collection # "markets"
        THEN [change_type |-> "", published |-> <<>>, aborted |-> FALSE,
              fetch |-> FALSE]
        ELSE [change_type |-> change_type,
              published |-> Delivered(attempts, ev.failing),
              aborted |-> aborted,
              fetch |-> /\ ~aborted
                        /\ change_type \in {"CREATE", "UPDATE"}
                        /\ _maybe_update_score_with_orderbook(
                               change_type,
                               IF change_type = "CREATE" THEN <<>> ELSE ev.old,
                               ev.new)]

(***************************************************************************)
(* Specification of the handler as a function of the write event: the old  *)
(* and new document are drawn from bounded sets and the event is handled.  *)
(***************************************************************************)
TriggerScores ==
    {None, Some(Num(<<1, 20>>)), Some(Num(<<1, 10>>)), Some(Num(<<3, 20>>)),
     Some(StrV(<<"a", "b", "c">>))}

TriggerStatuses == {Some(StrV(STR_open)), Some(StrV(STR_closed))}

TriggerYesBids == {Some(Num(RInt(45))), Some(Num(RInt(46)))}

TriggerResults == {None, Some(StrV(STR_yes))}

TriggerScoreOrderbooks == {None, Some(Num(<<3, 110>>))}

TriggerUpdatedAts == {Some(Ts(1)), Some(Ts(2))}

\* the document with the given optional fields
Field(name, opt) == IF opt = None THEN <<>> ELSE (name :> Val(opt))

TriggerDocs ==
    {<<>>} \cup
    { Field("score", sc) @@ Field("status", st) @@ Field("yes_bid", yb)
      @@ Field("result", re) @@ Field("score_orderbook", so)
      @@ Field("updated_at", ua) :
        sc \in TriggerScores, st \in TriggerStatuses, yb \in TriggerYesBids,
        re \in TriggerResults, so \in TriggerScoreOrderbooks,
        ua \in TriggerUpdatedAts }

PublishFailures ==
    { {}, {"market.closed", "market.settled"},
      {"market.created", "market.updated", "market.closed", "market.settled"} }

InitTrigger ==
    /\ event \in [collection : {"markets"}, old : TriggerDocs,
                  new : TriggerDocs, failing : PublishFailures]
                 \cup [collection : {"orderbooks"}, old : {<<>>},
                       new : TriggerDocs, failing : {{}}]
    /\ handled = <<>>
    /\ StoreIdle
    /\ market = TestMarket /\ clock = 0
    /\ pc = "idle" /\ nowReads = <<>> /\ partial = Ret(VZero)
    /\ lastRead = NoRead /\ scores = <<>>
    /\ OrderbookIdle /\ FetchIdle

HandleEvent ==
    /\ handled = <<>>
    /\ handled' = <<process_market_event(event)>>
    /\ UNCHANGED <<event, doc, pending, runs>>
    /\ UNCHANGED scVars
    /\ UNCHANGED obVars

NextTrigger == HandleEvent

SpecTrigger == InitTrigger /\ [][NextTrigger]_vars

(***************************************************************************)
(* Claims on the trigger                                                   *)
(***************************************************************************)
IsCreate == DOMAIN event.old = {} /\ DOMAIN event.new # {}

IsUpdate == DOMAIN event.old # {} /\ DOMAIN event.new # {}

\* the score stored in the document as a number, None when the field is
\* missing or does not parse
StoredScore(fields) ==
    IF "score" \notin DOMAIN fields THEN None
    ELSE ScoreFloat(fields["score"])

CreateAboveThreshold ==
    /\ IsCreate
    /\ StoredScore(event.new) # None
    /\ RLt(<<1, 10>>, Val(StoredScore(event.new)))

UpdateCrossesThreshold ==
    /\ IsUpdate
    /\ StoredScore(event.old) # None /\ StoredScore(event.new) # None
    /\ RLt(Val(StoredScore(event.old)), <<1, 10>>)
    /\ RLe(<<1, 10>>, Val(StoredScore(event.new)))

UpdateFromNoScore ==
    /\ IsUpdate
    /\ StoredScore(event.old) = None /\ StoredScore(event.new) # None
    /\ RLe(<<1, 10>>, Val(StoredScore(event.new)))

\* C1 as claimed: a fetch is started exactly when the event is a CREATE
\* with score > 0.1 or an UPDATE whose previous score is < 0.1 and whose
\* new score is >= 0.1.
C1_Original ==
    (handled # <<>> /\ event.collection = "markets") =>
        (handled[1].fetch <=> (CreateAboveThreshold \/ UpdateCrossesThreshold))

\* C1 amended: unless publishing market.created / market.updated for the
\* event failed, a fetch is started exactly when the event is a CREATE with
\* score > 0.1, or an UPDATE with new score >= 0.1 whose previous score is
\* < 0.1 or is missing or unparsable; after a failed publish of
\* market.created / market.updated no fetch is started.
C1_Amended ==
    (handled # <<>> /\ event.collection = "markets") =>
        /\ ~handled[1].aborted =>
              (handled[1].fetch <=>
                  (CreateAboveThreshold \/ UpdateCrossesThreshold
                   \/ UpdateFromNoScore))
        /\ handled[1].aborted => ~handled[1].fetch

\* an UPDATE from a document without a parsable score to score 0.1 was
\* handled and started a fetch
C1_Witness ==
    /\ handled # <<>>
    /\ UpdateFromNoScore
    /\ handled[1].fetch

(***************************************************************************)
(* C28: an UPDATE event whose old and new stored score are both >= 0.1     *)
(* starts no orderbook fetch, whatever else changed in the document; an    *)
(* UPDATE event with a stored old score that starts a fetch is one whose   *)
(* old score is below 0.1, so that after a rescoring the next one needs    *)
(* the stored score to have dropped below 0.1 first.                       *)
(***************************************************************************)
ScoreStaysAbove ==
    /\ IsUpdate
    /\ StoredScore(event.old) # None /\ StoredScore(event.new) # None
    /\ RLe(SCORE_THRESHOLD, Val(StoredScore(event.old)))
    /\ RLe(SCORE_THRESHOLD, Val(StoredScore(event.new)))

C28_NoFetchWhileAbove ==
    (handled # <<>> /\ event.collection = "markets") =>
        /\ ScoreStaysAbove => ~handled[1].fetch
        /\ (IsUpdate /\ handled[1].fetch /\ StoredScore(event.old) # None) =>
               RLt(Val(StoredScore(event.old)), SCORE_THRESHOLD)

\* an UPDATE from score 0.1 to score 0.15 with another yes_bid and another
\* status was handled, its publications succeeded and no fetch was started
C28_Witness ==
    /\ handled # <<>> /\ event.collection = "markets"
    /\ ScoreStaysAbove
    /\ StoredScore(event.old) = Some(<<1, 10>>)
    /\ StoredScore(event.new) = Some(<<3, 20>>)
    /\ event.old["yes_bid"] # event.new["yes_bid"]
    /\ event.old["status"] # event.new["status"]
    /\ ~handled[1].aborted
    /\ handled[1].published # <<>>
    /\ ~handled[1].fetch

(***************************************************************************)
(* One markets document under the crawler (MarketDAO.batch_create_markets) *)
(* and the function instances handling its write events, each of which     *)
(* may run _fetch_orderbook_and_update_market.  Every write of the         *)
(* document queues an event carrying the document before and after.        *)
(*                                                                         *)
(* Of the fields of the document the model keeps yes_bid, yes_ask, score,  *)
(* score_orderbook, created_at and updated_at; the remaining ones do not   *)
(* change here.  The markets crawled have their mid at 50 and no           *)
(* liquidity, so that every score is a rational number.                    *)
(***************************************************************************)
MaxWrites == 3

MaxRuns == 2

\* the value of a float whose exp terms all have exponent 0
VAsRat(v) == VCoefSum(v)

SystemQuotes == { <<48, 52>>, <<47, 53>> }

\* a Market as get_markets parses it: the API sends no updated_at
CrawledMarket(q) ==
    [TestMarket EXCEPT !.yes_bid = q[1], !.yes_ask = q[2],
                       !.previous_yes_bid = q[1], !.previous_yes_ask = q[2],
                       !.liquidity_dollars = <<"0", ".", "0", "0">>,
                       !.updated_at = None]

SystemOrderbooks ==
    { [yes |-> <<>>, no |-> <<>>],
      [yes |-> <<[price |-> 47, count |-> 300]>>,
       no |-> <<[price |-> 50, count |-> 300]>>] }

\* SERVER_TIMESTAMP is resolved to the instant `now` of the write
_market_to_dict(m, now) ==
    ("yes_bid" :> Num(RInt(m.yes_bid)))
    @@ ("yes_ask" :> Num(RInt(m.yes_ask)))
    @@ ("score" :> Num(VAsRat(score(m, now, now).val)))
    @@ ("created_at" :> Ts(now))
    @@ ("updated_at" :> Ts(now))

_dict_to_market(data) ==
    [TestMarket EXCEPT !.yes_bid = data["yes_bid"].num[1],
                       !.yes_ask = data["yes_ask"].num[1],
                       !.previous_yes_bid = data["yes_bid"].num[1],
                       !.previous_yes_ask = data["yes_ask"].num[1],
                       !.liquidity_dollars = <<"0", ".", "0", "0">>,
                       !.updated_at = Some(data["updated_at"].ts)]

\* DocumentReference.update: the given fields replace or extend the document
Update(data, fields) == fields @@ data

Without(fields, name) == [f \in DOMAIN fields \ {name} |-> fields[f]]

WriteEvent(old, new, cause) == [old |-> old, new |-> new, cause |-> cause]

InitSystem ==
    /\ doc = <<>> /\ pending = {} /\ runs = <<>>
    /\ event = NoEvent /\ handled = <<>>
    /\ market = TestMarket /\ clock = 0
    /\ pc = "idle" /\ nowReads = <<>> /\ partial = Ret(VZero)
    /\ lastRead = NoRead /\ scores = <<>>
    /\ OrderbookIdle /\ FetchIdle

\* batch_create_markets for one crawled market: set when the document does
\* not exist, else update without created_at
CrawlerUpsert ==
    \E q \in SystemQuotes :
        LET data == _market_to_dict(CrawledMarket(q), clock + 1)
            new == IF doc = <<>> THEN data
                   ELSE Update(doc, Without(data, "created_at"))
        IN  /\ clock < MaxWrites
            /\ clock' = clock + 1
            /\ doc' = new
            /\ pending' = pending \cup {WriteEvent(doc, new, "crawler")}
            /\ UNCHANGED <<event, handled, runs>>
            /\ UNCHANGED <<market, pc, nowReads, partial, lastRead, scores>>
            /\ UNCHANGED obVars

\* a function instance handles a write event and does not start a fetch
HandleWriteNoFetch ==
    \E e \in pending, failing \in PublishFailures :
        LET res == process_market_event(
                       [collection |-> "markets", old |-> e.old,
                        new |-> e.new, failing |-> failing])
        IN  /\ ~res.fetch
            /\ pending' = pending \ {e}
            /\ UNCHANGED <<event, handled, doc, runs>>
            /\ UNCHANGED scVars
            /\ UNCHANGED obVars

\* a function instance handles a write event and calls
\* _update_market_score_with_orderbook
HandleWriteFetch ==
    \E e \in pending, failing \in PublishFailures :
        LET res == process_market_event(
                       [collection |-> "markets", old |-> e.old,
                        new |-> e.new, failing |-> failing])
        IN  /\ res.fetch
            /\ Len(runs) < MaxRuns
            /\ pending' = pending \ {e}
            /\ runs' = Append(runs, [cause |-> e.cause, pc |-> "get_market",
                                     data |-> <<>>, orderbook |-> <<>>])
            /\ UNCHANGED <<event, handled, doc>>
            /\ UNCHANGED scVars
            /\ UNCHANGED obVars

\* market = market_dao.get_market(ticker)
RescorerGetMarket ==
    \E i \in 1..Len(runs) :
        /\ runs[i].pc = "get_market"
        /\ runs' = [runs EXCEPT ![i].pc = "get_market_orderbook",
                                ![i].data = doc]
        /\ UNCHANGED <<event, handled, doc, pending>>
        /\ UNCHANGED scVars
        /\ UNCHANGED obVars

\* orderbook_response = await kalshi_service.get_market_orderbook(ticker, 3)
RescorerFetchOrderbook ==
    \E i \in 1..Len(runs), ob \in SystemOrderbooks :
        /\ runs[i].pc = "get_market_orderbook"
        /\ runs' = [runs EXCEPT ![i].pc = "update", ![i].orderbook = ob]
        /\ UNCHANGED <<event, handled, doc, pending>>
        /\ UNCHANGED scVars
        /\ UNCHANGED obVars

\* the request fails: the except clause ends the run without a write
RescorerFetchFails ==
    \E i \in 1..Len(runs) :
        /\ runs[i].pc = "get_market_orderbook"
        /\ runs' = [runs EXCEPT ![i].pc = "done", ![i].data = <<>>]
        /\ UNCHANGED <<event, handled, doc, pending>>
        /\ UNCHANGED scVars
        /\ UNCHANGED obVars

\* the fields market_ref.update receives: score from the market read by
\* get_market, score_orderbook from the orderbook, at the instant now
rescorer_update(data, ob, now) ==
    LET m == _dict_to_market(data)
    IN  ("score" :> Num(VAsRat(score(m, now, now).val)))
        @@ ("score_orderbook" :>
               Num(update_score_with_orderbook(m, ob, now).score_enhanced))
        @@ ("updated_at" :> Ts(now))

\* market_ref.update({...}) of _fetch_orderbook_and_update_market
RescorerUpdate ==
    \E i \in 1..Len(runs) :
        LET new == Update(doc, rescorer_update(runs[i].data,
                                               runs[i].orderbook, clock + 1))
        IN  /\ runs[i].pc = "update"
            /\ clock < MaxWrites
            /\ clock' = clock + 1
            /\ doc' = new
            /\ pending' = pending \cup {WriteEvent(doc, new, "rescorer")}
            /\ runs' = [runs EXCEPT ![i].pc = "done", ![i].data = <<>>,
                                    ![i].orderbook = <<>>]
            /\ UNCHANGED <<event, handled>>
            /\ UNCHANGED <<market, pc, nowReads, partial, lastRead, scores>>
            /\ UNCHANGED obVars

NextSystem ==
    \/ CrawlerUpsert
    \/ HandleWriteNoFetch
    \/ HandleWriteFetch
    \/ RescorerGetMarket
    \/ RescorerFetchOrderbook
    \/ RescorerFetchFails
    \/ RescorerUpdate

SpecSystem == InitSystem /\ [][NextSystem]_vars

\* C2: every run of the rescorer was started by the event of a crawler
\* write, none by the event of a rescorer write.
C2_NoRescorerCausedRun ==
    \A i \in 1..Len(runs) : runs[i].cause = "crawler"

(***************************************************************************)
(* Further claims on the sub-scores (SpecSubscores)                        *)
(***************************************************************************)
QuoteScoresRead == scores # <<>> /\ "activity_score" \in DOMAIN scores[1]

PriceChanged ==
    \/ market.yes_bid # market.previous_yes_bid
    \/ market.yes_ask # market.previous_yes_ask
    \/ market.last_price # market.previous_price

\* x / (x + 1000)
SoftCap(x) == Rat(x, x + 1000)

\* C11: for volume_24h >= 0 and open_interest >= 0, activity_score is
\* 0.3*norm(volume_24h) + 0.3*norm(open_interest) + 0.4*freshness, where
\* freshness is 1 if yes_bid, yes_ask or last_price differs from its
\* previous value and norm(volume_24h) otherwise; it is exactly 0 with no
\* volume, no open interest and no price change, and at least 0.4 whenever
\* a price changed.
C11_ActivityScore ==
    QuoteScoresRead =>
        /\ scores[1].activity_score =
              RAdd(RAdd(RMul(<<3, 10>>, SoftCap(market.volume_24h)),
                        RMul(<<3, 10>>, SoftCap(market.open_interest))),
                   RMul(<<2, 5>>, IF PriceChanged THEN ROne
                                  ELSE SoftCap(market.volume_24h)))
        /\ (market.volume_24h = 0 /\ market.open_interest = 0 /\ ~PriceChanged)
              => scores[1].activity_score = RZero
        /\ PriceChanged => RLe(<<2, 5>>, scores[1].activity_score)

\* a market whose last_price alone changed, and a dead one, have been scored
C11_Witness ==
    /\ QuoteScoresRead
    /\ market.yes_bid = market.previous_yes_bid
    /\ market.yes_ask = market.previous_yes_ask
    /\ market.last_price # market.previous_price
    /\ market.volume_24h = 0 /\ market.open_interest = 0
    /\ scores[1].activity_score = <<2, 5>>

\* 0 <= yes_bid <= yes_ask <= 100, volume_24h >= 0, open_interest >= 0 and
\* liquidity_dollars parsing to a value >= 0
NormalInputs ==
    /\ 0 <= market.yes_bid /\ market.yes_bid <= market.yes_ask
    /\ market.yes_ask <= 100
    /\ market.volume_24h >= 0 /\ market.open_interest >= 0
    /\ ParseFloat(market.liquidity_dollars) # None
    /\ RLe(RZero, Val(ParseFloat(market.liquidity_dollars)))

TimeWeights == { <<1, 5>>, <<2, 5>>, <<7, 10>>, ROne }

\* C12: with normal inputs taker_potential, maker_potential and raw_score
\* lie in [0, 1], raw_score = 0.6*taker_potential + 0.4*maker_potential and
\* score = raw_score * w for a time weight w in [0.2, 1], so that
\* 0.2*raw_score <= score <= raw_score.
C12_ScoreBounds ==
    (QuoteScoresRead /\ NormalInputs) =>
        /\ scores[1].maker_potential.exc = ""
        /\ scores[1].raw_score.exc = "" /\ scores[1].score.exc = ""
        /\ VInUnit(scores[1].taker_potential)
        /\ VInUnit(scores[1].maker_potential.val)
        /\ VInUnit(scores[1].raw_score.val)
        /\ scores[1].raw_score.val =
              VAdd(VScale(<<3, 5>>, scores[1].taker_potential),
                   VScale(<<2, 5>>, scores[1].maker_potential.val))
        /\ scores[1].time_to_close_weight \in TimeWeights
        /\ scores[1].score.val =
              VScale(scores[1].time_to_close_weight, scores[1].raw_score.val)

\* a normal market with positive taker and maker potential, closing in
\* more than a day, has been scored
C12_Witness ==
    /\ QuoteScoresRead /\ NormalInputs
    /\ VPositive(scores[1].taker_potential)
    /\ VPositive(scores[1].maker_potential.val)
    /\ scores[1].time_to_close_weight = <<1, 5>>
    /\ scores[1].score.val # scores[1].raw_score.val

(***************************************************************************)
(* Further claims on the Orderbook analytics (SpecOrderbook)               *)
(***************************************************************************)
\* C13: with both sides non-empty, best_yes_bid and best_no_bid are the
\* prices of the first YES and the first NO level, yes_ask_l1 is
\* 100 - best_no_bid with the first NO level's quantity, spread is
\* yes_ask_l1 - best_yes_bid and mid is floor((yes_ask_l1 + best_yes_bid)/2).
C13_TopOfBook ==
    (analytics # <<>> /\ ~SideEmpty) =>
        LET a == analytics[1]
            bid == orderbook.yes[1].price
            ask == 100 - orderbook.no[1].price
        IN  /\ a.best_yes_bid = Some(bid)
            /\ a.best_no_bid = Some(orderbook.no[1].price)
            /\ a.yes_ask_l1 = Some(ask)
            /\ a.yes_ask_l1_qty = Some(orderbook.no[1].count)
            /\ a.spread = Some(ask - bid)
            /\ 2 * Val(a.mid) <= ask + bid /\ ask + bid < 2 * Val(a.mid) + 2

\* a two-sided book whose ask and bid have an odd sum has been read
C13_Witness ==
    /\ analytics # <<>> /\ ~SideEmpty
    /\ (100 - orderbook.no[1].price + orderbook.yes[1].price) % 2 = 1
    /\ orderbook.no[1].count # orderbook.yes[1].count

\* C14: best_yes_bid and best_no_bid are the highest price among the
\* levels of their side, None when the side is empty, for every orderbook
\* get_market_orderbook builds.
C14_BestIsHighest ==
    analytics # <<>> =>
        /\ orderbook.yes = <<>> => analytics[1].best_yes_bid = None
        /\ orderbook.no = <<>> => analytics[1].best_no_bid = None
        /\ orderbook.yes # <<>> =>
              \A i \in 1..Len(orderbook.yes) :
                  orderbook.yes[i].price <= Val(analytics[1].best_yes_bid)
        /\ orderbook.no # <<>> =>
              \A i \in 1..Len(orderbook.no) :
                  orderbook.no[i].price <= Val(analytics[1].best_no_bid)

\* the sum of the quantities of the levels at the positions I of a ladder
RECURSIVE SumAt(_, _)
SumAt(levels, I) ==
    IF I = {} THEN 0
    ELSE LET i == CHOOSE j \in I : TRUE
         IN  levels[i].count + SumAt(levels, I \ {i})

\* the positions of the levels priced at most K - 1 below the first level
WithinK(levels, K) ==
    {i \in 1..Len(levels) : levels[i].price >= levels[1].price - (K - 1)}

\* C15: for every K >= 1, depth_ask_withinK(K) is the sum of the quantities
\* of exactly the NO levels with price >= best_no_bid - (K - 1), and
\* depth_bid_withinK(K) the same over the YES levels relative to
\* best_yes_bid; each is 0 when its side is empty and neither exceeds the
\* total quantity of its side.
C15_DepthWithinK ==
    analytics # <<>> =>
        \A K \in 1..MaxK :
            /\ analytics[1].depth_ask_withinK[K] =
                   SumAt(orderbook.no, WithinK(orderbook.no, K))
            /\ analytics[1].depth_bid_withinK[K] =
                   SumAt(orderbook.yes, WithinK(orderbook.yes, K))
            /\ orderbook.no = <<>> => analytics[1].depth_ask_withinK[K] = 0
            /\ orderbook.yes = <<>> => analytics[1].depth_bid_withinK[K] = 0
            /\ orderbook.no # <<>> =>
                   /\ analytics[1].best_no_bid = Some(orderbook.no[1].price)
                   /\ analytics[1].depth_ask_withinK[K] <=
                          SumAt(orderbook.no, DOMAIN orderbook.no)
            /\ orderbook.yes # <<>> =>
                   /\ analytics[1].best_yes_bid = Some(orderbook.yes[1].price)
                   /\ analytics[1].depth_bid_withinK[K] <=
                          SumAt(orderbook.yes, DOMAIN orderbook.yes)

\* a NO ladder whose second level enters the ask depth between K = 2 and
\* K = 3, and a YES ladder whose second level stays outside for every K
C15_Witness ==
    /\ analytics # <<>>
    /\ Len(orderbook.no) = 2 /\ Len(orderbook.yes) = 2
    /\ orderbook.no[2].count > 0 /\ orderbook.yes[2].count > 0
    /\ analytics[1].depth_ask_withinK[2] = orderbook.no[1].count
    /\ analytics[1].depth_ask_withinK[3] =
           orderbook.no[1].count + orderbook.no[2].count
    /\ \A K \in 1..MaxK :
           analytics[1].depth_bid_withinK[K] = orderbook.yes[1].count

\* C16: for every N >= 0, depth_yes_topN(N) and depth_no_topN(N) are the sum
\* of the quantities of the last N levels of the ladder (of the whole ladder
\* when it has fewer than N levels), and 0 when the side is empty.
C16_DepthTopN ==
    analytics # <<>> =>
        \A N \in 0..MaxN :
            /\ analytics[1].depth_yes_topN[N] =
                   SumAt(orderbook.yes,
                         {i \in DOMAIN orderbook.yes :
                              i > Len(orderbook.yes) - N})
            /\ analytics[1].depth_no_topN[N] =
                   SumAt(orderbook.no,
                         {i \in DOMAIN orderbook.no :
                              i > Len(orderbook.no) - N})

\* C17: obi = (bid_depth - ask_depth) / max(1, bid_depth + ask_depth) with
\* bid_depth = depth_yes_topN() and ask_depth = depth_ask_withinK(); it is
\* None exactly when both depths are 0 and lies in [-1, 1] otherwise.
C17_Obi ==
    analytics # <<>> =>
        LET a == analytics[1]
        IN  /\ a.bid_depth = depth_yes_topN(orderbook, N_TOP)
            /\ a.ask_depth = depth_ask_withinK(orderbook, K_DEPTH)
            /\ a.obi = None <=> (a.bid_depth = 0 /\ a.ask_depth = 0)
            /\ a.obi # None =>
                   /\ a.obi = Some(Rat(a.bid_depth - a.ask_depth,
                                       Max(1, a.bid_depth + a.ask_depth)))
                   /\ RLe(<<-1, 1>>, Val(a.obi))
                   /\ RLe(Val(a.obi), ROne)

\* a NO level more than K_DEPTH - 1 below the first one is left out of the
\* ask depth, and the imbalance is strictly inside (-1, 1)
C17_Witness ==
    /\ analytics # <<>>
    /\ Len(orderbook.no) = 2
    /\ analytics[1].ask_depth = orderbook.no[1].count
    /\ orderbook.no[2].count > 0
    /\ analytics[1].bid_depth > analytics[1].ask_depth
    /\ analytics[1].ask_depth > 0
    /\ analytics[1].obi # None
    /\ RLt(RZero, Val(analytics[1].obi))
    /\ RLt(Val(analytics[1].obi), ROne)

C19_MicroOwnQty ==
    (analytics # <<>> /\ ~SideEmpty
     /\ Val(analytics[1].yes_ask_l1_qty)
        + Val(analytics[1].best_yes_bid_qty) > 0) =>
        LET a == analytics[1]
        IN  /\ a.micro =
                   Some(Rat(Val(a.yes_ask_l1) * Val(a.yes_ask_l1_qty)
                            + Val(a.best_yes_bid) * Val(a.best_yes_bid_qty),
                            Val(a.yes_ask_l1_qty) + Val(a.best_yes_bid_qty)))
            /\ (orderbook = [yes |-> <<[price |-> 50, count |-> 300]>>,
                             no |-> <<[price |-> 52, count |-> 100]>>])
                   => a.micro = Some(<<99, 2>>)

(***************************************************************************)
(* Listing the open markets (KalshiAPIService.getAllOpenMarkets).  The     *)
(* exchange holds exchange.total open markets, numbered from 1; a list of  *)
(* markets is kept as a sequence of runs [first, n], the n markets         *)
(* numbered first .. first + n - 1.  A cursor string is modelled by the    *)
(* position it encodes, the empty string "" by 0.                          *)
(***************************************************************************)
PAGE_LIMIT == 1000

MAX_COLLECTED == 100000

MaxMarkets == 102000

\* len(markets)
RECURSIVE Count(_)
Count(markets) ==
    IF markets = <<>> THEN 0
    ELSE IF Len(markets) = 1 THEN markets[1].n
    ELSE Count(SubSeq(markets, 1, Len(markets) \div 2))
         + Count(SubSeq(markets, Len(markets) \div 2 + 1, Len(markets)))

\* the body of GET /markets: at most limit markets after the position of
\* the cursor, and the cursor of the next page, which is "" or null once
\* the listing is exhausted
MarketsPage(limit, cursor) ==
    LET from == IF cursor = None THEN 0 ELSE Val(cursor)
        n == Min(limit, exchange.total - from)
    IN  [markets |-> IF n = 0 THEN <<>>
                     ELSE <<[first |-> from + 1, n |-> n]>>,
         cursor |-> IF from + n >= exchange.total THEN exchange.last
                    ELSE Some(from + n)]

\* get_markets(limit=limit, cursor=cursor, status=status) when the request
\* and the parsing of its response succeed
get_markets(limit, cursor, status) ==
    IF limit < 1 \/ limit > 1000 THEN Raise("ValueError")
    ELSE Ret(MarketsPage(limit, cursor))

\* faulty variant: the new page is put in front of the collected markets
extend_front(all_markets, markets) == markets \o all_markets

\* all_markets.extend(response.markets)
extend(all_markets, markets) == all_markets \o markets

\* not response.cursor or response.cursor == ""
NoCursor(cursor) == cursor = None \/ cursor = Some(0)

\* the call of get_markets as the test double of the repository records it
Called(cursor, response) ==
    [fetch EXCEPT
        !.requests = Append(@, [limit |-> PAGE_LIMIT, cursor |-> cursor,
                                status |-> "open"]),
        !.responses = Append(@, response)]

\* getAllOpenMarkets() is entered: all_markets = [], cursor = None; the
\* exchange holds no market, less than a page, full pages with and without
\* a rest, or about MAX_COLLECTED markets
InitMarkets ==
    /\ exchange \in
           [total : {0, 1, PAGE_LIMIT, PAGE_LIMIT + 1, 2 * PAGE_LIMIT + 500,
                     MAX_COLLECTED, MAX_COLLECTED + 1,
                     MAX_COLLECTED + PAGE_LIMIT,
                     MAX_COLLECTED + PAGE_LIMIT + 1, MaxMarkets},
            last : {None, Some(0)}]
    /\ fetch = [NoFetch EXCEPT !.pc = "loop"]
    /\ OrderbookIdle /\ ServiceIdle
    /\ ScoreIdle
    /\ TriggerIdle

\* one turn of the while loop once get_markets has answered: the page is
\* appended; the loop ends at a page without cursor, and with RuntimeError
\* once more than 100000 markets are collected; an exception of get_markets
\* leaves the call
Turn(f, response) ==
    IF response.exc # ""
    THEN [f EXCEPT !.pc = "done", !.result = Some(response)]
    ELSE CHOOSE g \in
        {IF NoCursor(response.val.cursor)
         THEN [f EXCEPT !.all_markets = all, !.pc = "done",
                        !.result = Some(Ret(all))]
         ELSE IF Count(all) > MAX_COLLECTED
         THEN [f EXCEPT !.all_markets = all, !.pc = "done",
                        !.cursor = response.val.cursor,
                        !.result = Some(Raise("RuntimeError"))]
         ELSE [f EXCEPT !.all_markets = all,
                        !.cursor = response.val.cursor] :
             all \in {extend(f.all_markets, response.val.markets)}} : TRUE

\* a turn of the loop against the exchange
FetchPage ==
    /\ fetch.pc = "loop"
    /\ \E response \in {get_markets(PAGE_LIMIT, fetch.cursor, "open")} :
           fetch' = Turn(Called(fetch.cursor, response), response)
    /\ UNCHANGED <<orderbook, analytics, rescored, exchange,
                 limiter, crawler, runner>>
    /\ UNCHANGED scVars
    /\ UNCHANGED evVars

\* get_markets raises, as it does when the request or the parsing of the
\* response fails: the exception leaves getAllOpenMarkets
FetchPageFails ==
    /\ fetch.pc = "loop"
    /\ \E e \in {"HTTPError", "ValueError", "RuntimeError"} :
           fetch' = Turn(Called(fetch.cursor, Raise(e)), Raise(e))
    /\ UNCHANGED <<orderbook, analytics, rescored, exchange,
                 limiter, crawler, runner>>
    /\ UNCHANGED scVars
    /\ UNCHANGED evVars

NextMarkets == FetchPage \/ FetchPageFails

SpecMarkets == InitMarkets /\ [][NextMarkets]_vars

RECURSIVE PagesUpTo(_)
PagesUpTo(k) ==
    IF k = 0 THEN <<>>
    ELSE PagesUpTo(k - 1) \o fetch.responses[k].val.markets

Fetched == Len(fetch.responses)

\* the first request has cursor None, each next one the cursor of the page
\* before it; every request has status=open and limit=1000
RequestsChained ==
    /\ Len(fetch.requests) = Fetched
    /\ \A i \in 1..Fetched :
           /\ fetch.requests[i].limit = 1000
           /\ fetch.requests[i].status = "open"
           /\ fetch.requests[i].cursor =
                  IF i = 1 THEN None ELSE fetch.responses[i - 1].val.cursor

\* every page before the last fetched one was delivered with a cursor
EarlierPagesContinue ==
    \A i \in 1..(Fetched - 1) :
        /\ fetch.responses[i].exc = ""
        /\ ~NoCursor(fetch.responses[i].val.cursor)

\* nothing is returned before the loop ends; an error of get_markets is
\* the outcome of the call
ErrorPropagated ==
    /\ fetch.pc = "loop" => fetch.result = None
    /\ fetch.pc = "done" =>
           /\ Fetched >= 1 /\ fetch.result # None
           /\ fetch.responses[Fetched].exc # "" =>
                  fetch.result = Some(Raise(fetch.responses[Fetched].exc))

\* C20 as stated: the result is the concatenation in page order of all
\* fetched pages; the first request has cursor None and each next one the
\* cursor of the previous page, always with status=open and limit=1000;
\* the call stops at the first page whose cursor is empty; an error of
\* get_markets is propagated and no partial list returned.
C20_Original ==
    /\ RequestsChained
    /\ EarlierPagesContinue
    /\ ErrorPropagated
    /\ (fetch.pc = "done" /\ fetch.responses[Fetched].exc = "") =>
           /\ NoCursor(fetch.responses[Fetched].val.cursor)
           /\ fetch.result = Some(Ret(PagesUpTo(Fetched)))

\* C20 amended: as stated, except that the call ends with RuntimeError at
\* the first page that has a cursor and brings the collected markets above
\* 100000.
C20_Amended ==
    /\ RequestsChained
    /\ EarlierPagesContinue
    /\ ErrorPropagated
    /\ \A i \in 1..(Fetched - 1) : Count(PagesUpTo(i)) <= MAX_COLLECTED
    /\ (fetch.pc = "loop" /\ Fetched >= 1) =>
           /\ fetch.responses[Fetched].exc = ""
           /\ ~NoCursor(fetch.responses[Fetched].val.cursor)
           /\ Count(PagesUpTo(Fetched)) <= MAX_COLLECTED
    /\ (fetch.pc = "done" /\ fetch.responses[Fetched].exc = "") =>
           IF NoCursor(fetch.responses[Fetched].val.cursor)
           THEN fetch.result = Some(Ret(PagesUpTo(Fetched)))
           ELSE /\ Count(PagesUpTo(Fetched)) > MAX_COLLECTED
                /\ fetch.result = Some(Raise("RuntimeError"))

\* three pages were fetched, the last one shorter and without cursor, and
\* their markets returned
C20_Witness ==
    /\ fetch.pc = "done" /\ Fetched = 3
    /\ fetch.result = Some(Ret(PagesUpTo(3)))
    /\ Len(PagesUpTo(3)) = 3
    /\ Count(PagesUpTo(3)) = exchange.total
    /\ fetch.responses[3].val.markets[1].n < PAGE_LIMIT

(***************************************************************************)
(* Specification of getAllOpenMarkets against any server: each page holds  *)
(* no market or PAGE_LIMIT markets and comes with null, "" or one of two   *)
(* cursors.  The loop keeps turning as long as it has not ended.           *)
(***************************************************************************)
InitPaging ==
    /\ fetch = [NoFetch EXCEPT !.pc = "loop"]
    /\ exchange = [total |-> 0, last |-> <<>>]
    /\ OrderbookIdle /\ ServiceIdle
    /\ ScoreIdle
    /\ TriggerIdle

\* a turn of the loop with the page the server chooses to send
FetchServed ==
    /\ fetch.pc = "loop"
    /\ \E markets \in {<<>>, <<[first |-> Count(fetch.all_markets) + 1,
                               n |-> PAGE_LIMIT]>>},
          cursor \in {None, Some(0), Some(1), Some(2)} :
           fetch' = Turn(fetch, Ret([markets |-> markets, cursor |-> cursor]))
    /\ UNCHANGED <<orderbook, analytics, rescored, exchange,
                 limiter, crawler, runner>>
    /\ UNCHANGED scVars
    /\ UNCHANGED evVars

NextPaging == FetchServed

SpecPaging == InitPaging /\ [][NextPaging]_vars /\ WF_vars(FetchServed)

\* C21: getAllOpenMarkets terminates for every sequence of page responses
\* the server can send: it returns at a page with an empty cursor or raises
\* RuntimeError once more than 100000 markets are accumulated.
C21_Terminates == <>(fetch.pc = "done")

(***************************************************************************)
(* Rate limiting (KalshiAPIService._rate_limit_call).  Time is the clock   *)
(* of the event loop in ticks, TicksPerSecond ticks to the second.  The    *)
(* coroutines run on one event loop: a coroutine runs without interruption *)
(* up to its next await, which is asyncio.sleep when the call has to wait, *)
(* and the HTTP request that follows _rate_limit_call.                     *)
(***************************************************************************)
TicksPerSecond == 4

MaxCallers == 2

MaxCalls == 3

MaxTime == 12

Callers == 1..MaxCallers

\* min_interval = 1.0 / self._rate_limit
min_interval(rate_limit) == TicksPerSecond \div rate_limit

\* self._last_call_time = asyncio.get_event_loop().time(); the request of
\* the caller (client.get) follows without an await in between
Pass(l, c) ==
    [l EXCEPT !.last_call_time = l.now, !.pc[c] = "idle",
              !.sent = Append(@, l.now)]

\* a service with rate_limit calls per second, not yet called, on an event
\* loop whose clock is past its first second
InitLimiter ==
    /\ limiter \in {[rate_limit |-> r, now |-> TicksPerSecond,
                     last_call_time |-> 0,
                     pc |-> [c \in Callers |-> "idle"],
                     wake |-> [c \in Callers |-> 0],
                     sent |-> <<>>] : r \in {1, 2}}
    /\ crawler = <<>> /\ runner = <<>>
    /\ exchange = [total |-> 0, last |-> <<>>] /\ fetch = NoFetch
    /\ OrderbookIdle
    /\ ScoreIdle
    /\ TriggerIdle

\* the calls started so far
Started ==
    Len(limiter.sent) + Cardinality({c \in Callers : limiter.pc[c] # "idle"})

\* a coroutine awaits get_markets or get_market_orderbook and the time
\* since the last call is at least min_interval: no sleep
CallAtOnce(c) ==
    /\ limiter.pc[c] = "idle" /\ Started < MaxCalls
    /\ limiter.now - limiter.last_call_time >= min_interval(limiter.rate_limit)
    /\ limiter' = Pass(limiter, c)
    /\ UNCHANGED <<orderbook, analytics, rescored, exchange, fetch, crawler,
                   runner>>
    /\ UNCHANGED scVars
    /\ UNCHANGED evVars

\* ... and the time since the last call is below min_interval:
\* await asyncio.sleep(min_interval - time_since_last_call)
CallSleeps(c) ==
    /\ limiter.pc[c] = "idle" /\ Started < MaxCalls
    /\ limiter.now - limiter.last_call_time < min_interval(limiter.rate_limit)
    /\ limiter' =
           [limiter EXCEPT
               !.pc[c] = "sleeping",
               !.wake[c] = limiter.now + min_interval(limiter.rate_limit)
                           - (limiter.now - limiter.last_call_time)]
    /\ UNCHANGED <<orderbook, analytics, rescored, exchange, fetch, crawler,
                   runner>>
    /\ UNCHANGED scVars
    /\ UNCHANGED evVars

\* asyncio.sleep returns, no earlier than asked
WakeUp(c) ==
    /\ limiter.pc[c] = "sleeping"
    /\ limiter.now >= limiter.wake[c]
    /\ limiter' = Pass(limiter, c)
    /\ UNCHANGED <<orderbook, analytics, rescored, exchange, fetch, crawler,
                   runner>>
    /\ UNCHANGED scVars
    /\ UNCHANGED evVars

\* the clock of the event loop advances
TickLoop ==
    /\ limiter.now < MaxTime
    /\ limiter' = [limiter EXCEPT !.now = @ + 1]
    /\ UNCHANGED <<orderbook, analytics, rescored, exchange, fetch, crawler,
                   runner>>
    /\ UNCHANGED scVars
    /\ UNCHANGED evVars

NextLimiter ==
    \/ \E c \in Callers : CallAtOnce(c)
    \/ \E c \in Callers : CallSleeps(c)
    \/ \E c \in Callers : WakeUp(c)
    \/ TickLoop

SpecLimiter == InitLimiter /\ [][NextLimiter]_vars

\* C22: any two HTTP requests issued through one KalshiAPIService are at
\* least 1 / rate_limit seconds apart, for sequential calls and for calls
\* awaited concurrently from several coroutines.
C22_RequestsSpaced ==
    \A i, j \in DOMAIN limiter.sent :
        i < j => limiter.sent[j] - limiter.sent[i]
                     >= min_interval(limiter.rate_limit)

(***************************************************************************)
(* Upserting the crawled markets (MarketCrawler._upsert_markets).  The     *)
(* market_dao is the MarketDAO of the repository ("real") or an object     *)
(* whose batch_create_markets returns or raises as it likes ("double").    *)
(***************************************************************************)
MaxRetries == 3

\* faulty variant: the exponent counts the attempts from 1
backoff_delay_from_one(retry_delay_seconds, attempt) ==
    retry_delay_seconds * 2^(attempt + 1)

\* delay = self.retry_delay_seconds * (2**attempt)
backoff_delay(retry_delay_seconds, attempt) ==
    retry_delay_seconds * 2^attempt

\* MarketDAO.batch_create_markets(markets) for n markets: a failure of the
\* existence read of one market skips that market, any other Firestore
\* failure is caught and 0 returned
batch_create_markets(n, failure) ==
    IF n = 0 THEN Ret(0)
    ELSE IF failure = "none" THEN Ret(n)
    ELSE IF failure = "get" THEN Ret(n - 1)
    ELSE Ret(0)

\* the rest of a turn of the retry loop, once batch_create_markets has
\* returned or raised
Attempted(c, outcome) ==
    IF outcome.exc = ""
    THEN [c EXCEPT !.outcomes = Append(@, outcome), !.pc = "done",
                   !.result = Some(outcome.val)]
    ELSE IF c.attempt < c.max_retries - 1
    THEN [c EXCEPT !.outcomes = Append(@, outcome), !.pc = "sleep",
                   !.waits = Append(@, backoff_delay(c.retry_delay_seconds,
                                                     c.attempt))]
    ELSE [c EXCEPT !.outcomes = Append(@, outcome), !.pc = "done",
                   !.result = Some(0)]

\* _upsert_markets(markets) is entered with a market_dao; range(0) is empty
InitUpsert ==
    /\ crawler \in
           {[dao |-> d, max_retries |-> m, retry_delay_seconds |-> r,
             markets |-> n, attempt |-> 0, outcomes |-> <<>>, waits |-> <<>>,
             pc |-> IF m = 0 THEN "done" ELSE "call",
             result |-> IF m = 0 THEN Some(0) ELSE None] :
                d \in {"real", "double"}, m \in 0..MaxRetries,
                r \in {1, 2, 5}, n \in {0, 3}}
    /\ limiter = <<>> /\ runner = <<>>
    /\ exchange = [total |-> 0, last |-> <<>>] /\ fetch = NoFetch
    /\ OrderbookIdle
    /\ ScoreIdle
    /\ TriggerIdle

\* an attempt with the MarketDAO of the repository, Firestore working or
\* failing at the existence read of a market or at any other call
AttemptReal ==
    /\ crawler.pc = "call" /\ crawler.dao = "real"
    /\ \E failure \in {"none", "get", "flush"} :
           crawler' = Attempted(crawler,
                                batch_create_markets(crawler.markets, failure))
    /\ UNCHANGED <<orderbook, analytics, rescored, exchange, fetch, limiter,
                   runner>>
    /\ UNCHANGED scVars
    /\ UNCHANGED evVars

\* an attempt with a market_dao whose batch_create_markets returns a count
\* or raises
AttemptDouble ==
    /\ crawler.pc = "call" /\ crawler.dao = "double"
    /\ \E outcome \in {Ret(crawler.markets), Raise("Exception")} :
           crawler' = Attempted(crawler, outcome)
    /\ UNCHANGED <<orderbook, analytics, rescored, exchange, fetch, limiter,
                   runner>>
    /\ UNCHANGED scVars
    /\ UNCHANGED evVars

\* await asyncio.sleep(delay) returns: the next turn of the for loop
SleepEnds ==
    /\ crawler.pc = "sleep"
    /\ crawler' = [crawler EXCEPT !.pc = "call", !.attempt = @ + 1]
    /\ UNCHANGED <<orderbook, analytics, rescored, exchange, fetch, limiter,
                   runner>>
    /\ UNCHANGED scVars
    /\ UNCHANGED evVars

NextUpsert == AttemptReal \/ AttemptDouble \/ SleepEnds

SpecUpsert == InitUpsert /\ [][NextUpsert]_vars

(***************************************************************************)
(* Claims on _upsert_markets                                               *)
(***************************************************************************)
Calls == Len(crawler.outcomes)

Failures == {i \in 1..Calls : crawler.outcomes[i].exc # ""}

\* C23: batch_create_markets is called at most max_retries times; the count
\* of the first call that does not raise is returned and no further call
\* made; the wait after the failed attempt number a (from 0) is
\* retry_delay_seconds * 2^a, with no wait after the last attempt; after
\* max_retries failures 0 is returned and nothing raised.
C23_RetryWithBackoff ==
    /\ Calls <= crawler.max_retries
    /\ \A i \in 1..(Calls - 1) : i \in Failures
    /\ crawler.pc = "done" <=> crawler.result # None
    /\ (Calls >= 1 /\ Calls \notin Failures) =>
           /\ crawler.pc = "done"
           /\ crawler.result = Some(crawler.outcomes[Calls].val)
    /\ (crawler.pc = "done" /\ Failures = 1..Calls) =>
           /\ Calls = crawler.max_retries
           /\ crawler.result = Some(0)
    /\ Len(crawler.waits) =
           Cardinality(Failures \ {crawler.max_retries})
    /\ \A i \in 1..Len(crawler.waits) :
           crawler.waits[i] =
               IF i = 1 THEN crawler.retry_delay_seconds
               ELSE 2 * crawler.waits[i - 1]

\* two failed attempts, waits of 5 and 10 seconds, and the count of the
\* third attempt returned
C23_Witness ==
    /\ crawler.pc = "done" /\ Calls = 3
    /\ Failures = {1, 2}
    /\ crawler.waits = <<5, 10>>
    /\ crawler.result = Some(3)

\* C30: with the MarketDAO of the repository, a Firestore failure while
\* batch_create_markets writes the markets makes _upsert_markets call
\* batch_create_markets again, up to max_retries calls, before it returns 0.
C30_RealDaoRetried ==
    (crawler.dao = "real" /\ crawler.markets > 0 /\ crawler.pc = "done"
     /\ crawler.max_retries > 0 /\ crawler.result = Some(0)) =>
        Calls = crawler.max_retries

(***************************************************************************)
(* Further claims on the trigger                                           *)
(***************************************************************************)
\* the fields of the written document that were added, removed or changed
ChangedSet ==
    {f \in DOMAIN event.old \cup DOMAIN event.new :
        \/ f \notin DOMAIN event.old
        \/ f \notin DOMAIN event.new
        \/ event.old[f] # event.new[f]}

\* C24: an UPDATE of a markets document whose set of changed fields is
\* non-empty and contained in {score_orderbook, taker_potential_orderbook,
\* maker_potential_orderbook, updated_at} never starts an orderbook fetch,
\* whatever the old and new score are.
C24_OrderbookOnlyUpdate ==
    (handled # <<>> /\ event.collection = "markets" /\ IsUpdate
     /\ ChangedSet # {}
     /\ ChangedSet \subseteq {"score_orderbook", "taker_potential_orderbook",
                              "maker_potential_orderbook", "updated_at"}) =>
        ~handled[1].fetch

\* the write of a rescoring: score_orderbook appears, updated_at changes,
\* and the score stays at 0.15
C24_Witness ==
    /\ handled # <<>> /\ event.collection = "markets" /\ IsUpdate
    /\ ChangedSet = {"score_orderbook", "updated_at"}
    /\ "score_orderbook" \notin DOMAIN event.old
    /\ StoredScore(event.new) = Some(<<3, 20>>)
    /\ ~handled[1].aborted
    /\ ~handled[1].fetch

\* the field was added, removed or changed by the write
Differs(f) == f \in ChangedSet

MaxBatch == 2

MaxDaoCalls == 3

\* the lists of markets of the ticker a call may be given
MarketLists ==
    UNION {[1..n -> {CrawledMarket(q) : q \in SystemQuotes}] : n \in 0..MaxBatch}

\* the writes batch_create_markets queues: update when market_ref.get()
\* finds the document, set otherwise; sent says that the BulkWriter has
\* sent the first write before the second market is looked up
QueuedWrites(d, markets, sent) ==
    [i \in 1..Len(markets) |->
        [kind |-> IF d # <<>> \/ (i > 1 /\ sent) THEN "update" ELSE "set",
         market |-> markets[i]]]

\* the document after the writes are committed, one after the other, the
\* first one at the instant now
RECURSIVE Commit(_, _, _)
Commit(d, writes, now) ==
    IF writes = <<>> THEN d
    ELSE Commit(
             CHOOSE new \in
                 {IF Head(writes).kind = "set" THEN data
                  ELSE Update(d, Without(data, "created_at")) :
                      data \in {_market_to_dict(Head(writes).market, now)}} :
                 TRUE,
             Tail(writes), now + 1)

\* the call is recorded, and for a document that appears the created_at of
\* the commit that creates it, the first one of the call
DaoCalled(op, returned, new) ==
    [calls |-> crawler.calls + 1, op |-> op, existed |-> doc # <<>>,
     returned |-> returned,
     created |-> IF doc = <<>> /\ new # <<>> /\ crawler.created = None
                 THEN Some(Ts(clock + 1))
                 ELSE crawler.created]

InitStore ==
    /\ doc \in {<<>>, _market_to_dict(CrawledMarket(<<48, 52>>), 0)}
    /\ crawler = [calls |-> 0, op |-> "", existed |-> FALSE, returned |-> 0,
                  created |-> IF doc = <<>> THEN None
                              ELSE Some(doc["created_at"])]
    /\ clock = 0
    /\ market = TestMarket
    /\ pc = "idle" /\ nowReads = <<>> /\ partial = Ret(VZero)
    /\ lastRead = NoRead /\ scores = <<>>
    /\ pending = {} /\ runs = <<>> /\ event = NoEvent /\ handled = <<>>
    /\ limiter = <<>> /\ runner = <<>>
    /\ exchange = [total |-> 0, last |-> <<>>] /\ fetch = NoFetch
    /\ OrderbookIdle

\* what the operations on the store leave unchanged
StoreOnly ==
    /\ UNCHANGED <<orderbook, analytics, rescored, exchange, fetch, limiter,
                   runner>>
    /\ UNCHANGED <<market, pc, nowReads, partial, lastRead, scores>>
    /\ UNCHANGED <<event, handled, pending, runs>>

\* MarketDAO.update_market(market)
UpdateMarket ==
    /\ crawler.calls < MaxDaoCalls
    /\ \E q \in SystemQuotes :
           IF doc = <<>>
           THEN /\ crawler' = DaoCalled("update_market", 0, doc)
                /\ UNCHANGED <<doc, clock>>
           ELSE \E new \in {Commit(doc, <<[kind |-> "update",
                                          market |-> CrawledMarket(q)]>>,
                                   clock + 1)} :
                    /\ doc' = new
                    /\ clock' = clock + 1
                    /\ crawler' = DaoCalled("update_market", 1, new)
    /\ StoreOnly

\* MarketDAO.batch_update_markets(markets): one batch, committed if it is
\* not empty; the commit fails when the document does not exist
BatchUpdateMarkets ==
    /\ crawler.calls < MaxDaoCalls
    /\ \E markets \in MarketLists :
           IF markets = <<>> \/ doc = <<>>
           THEN /\ crawler' = DaoCalled("batch_update_markets", 0, doc)
                /\ UNCHANGED <<doc, clock>>
           ELSE \E new \in {Commit(doc, <<[kind |-> "update",
                                          market |-> markets[Len(markets)]]>>,
                                   clock + 1)} :
                    /\ doc' = new
                    /\ clock' = clock + 1
                    /\ crawler' = DaoCalled("batch_update_markets",
                                            Len(markets), new)
    /\ StoreOnly

\* MarketDAO.batch_create_markets(markets)
BatchCreateMarkets ==
    /\ crawler.calls < MaxDaoCalls
    /\ \E markets \in MarketLists, sent \in BOOLEAN :
       \E new \in {Commit(doc, QueuedWrites(doc, markets, sent), clock + 1)} :
           /\ doc' = new
           /\ clock' = clock + Len(markets)
           /\ crawler' = DaoCalled("batch_create_markets", Len(markets), new)
    /\ StoreOnly

\* a call fails at Firestore before it has written: the exception is caught
\* and False or 0 returned
DaoCallFails ==
    /\ crawler.calls < MaxDaoCalls
    /\ \E op \in {"update_market", "batch_update_markets",
                  "batch_create_markets"} :
           crawler' = DaoCalled(op, 0, doc)
    /\ UNCHANGED <<doc, clock>>
    /\ StoreOnly

NextStore ==
    UpdateMarket \/ BatchUpdateMarkets \/ BatchCreateMarkets \/ DaoCallFails

SpecStore == InitStore /\ [][NextStore]_vars

\* C26: after any sequence of update_market, batch_update_markets and
\* batch_create_markets calls the created_at of the document is the one set
\* when it was first created; update_market writes nothing and returns
\* False when the document does not exist.
C26_CreatedAtKept ==
    /\ (doc # <<>> /\ crawler.created # None) =>
           doc["created_at"] = Val(crawler.created)
    /\ (crawler.op = "update_market" /\ ~crawler.existed) =>
           (crawler.returned = 0 /\ doc = <<>>)

(***************************************************************************)
(* KalshihubServiceRunner: start() and the shutdown() coroutines that the  *)
(* signal handler and main() create.  runner holds is_running, whether     *)
(* shutdown_event is set, the position of start() and one entry for every  *)
(* shutdown() call.  market_crawler is either the MarketCrawler of this    *)
(* repository, which has no start method, or a crawler that has one, as    *)
(* the ones the tests put in its place.                                    *)
(***************************************************************************)
MaxShutdowns == 3

RunnerCrawlers == {"MarketCrawler", "with_start"}

InitRunner ==
    /\ runner \in [crawler : RunnerCrawlers, pc : {"new"},
                   is_running : {FALSE}, shutdown_event : {FALSE},
                   calls : {<<>>}]
    /\ limiter = <<>> /\ crawler = <<>>
    /\ doc = <<>> /\ clock = 0
    /\ market = TestMarket
    /\ pc = "idle" /\ nowReads = <<>> /\ partial = Ret(VZero)
    /\ lastRead = NoRead /\ scores = <<>>
    /\ pending = {} /\ runs = <<>> /\ event = NoEvent /\ handled = <<>>
    /\ exchange = [total |-> 0, last |-> <<>>] /\ fetch = NoFetch
    /\ OrderbookIdle

\* what the steps of the runner leave unchanged
RunnerOnly ==
    /\ UNCHANGED <<orderbook, analytics, rescored, exchange, fetch, limiter,
                   crawler>>
    /\ UNCHANGED scVars
    /\ UNCHANGED evVars

\* a shutdown() call that has run up to its first await or its return
ShutdownCall(r) ==
    IF ~r.is_running
    THEN [running |-> FALSE, pc |-> "returned", outcome |-> "none"]
    ELSE [running |-> TRUE, pc |-> "close", outcome |-> "none"]

\* start(): _setup_signal_handlers and _initialize_services have returned
StartInitializes ==
    /\ runner.pc = "new"
    /\ runner' = [runner EXCEPT !.pc = "initialized"]
    /\ RunnerOnly

\* start(): await self.market_crawler.start() returns, is_running is set and
\* start() waits for shutdown_event
CrawlerStarted ==
    /\ runner.pc = "initialized"
    /\ runner.crawler = "with_start"
    /\ runner' = [runner EXCEPT !.pc = "waiting", !.is_running = TRUE]
    /\ RunnerOnly

\* start(): an exception before is_running is set (always, with the
\* MarketCrawler that has no start); the except clause awaits shutdown(),
\* which returns at once, and start() returns
StartFails ==
    /\ runner.pc \in {"new", "initialized"}
    /\ Len(runner.calls) < MaxShutdowns
    /\ runner' = [runner EXCEPT !.pc = "returned",
                                !.calls = Append(@, ShutdownCall(runner))]
    /\ RunnerOnly

\* shutdown() is invoked, by the task of the signal handler or by main()
ShutdownCalled ==
    /\ Len(runner.calls) < MaxShutdowns
    /\ runner' = [runner EXCEPT !.calls = Append(@, ShutdownCall(runner))]
    /\ RunnerOnly

\* shutdown(): market_crawler.close() returns; lines 168-169
CloseReturns ==
    /\ \E i \in 1..Len(runner.calls) :
           /\ runner.calls[i].pc = "close"
           /\ runner' = [runner EXCEPT !.is_running = FALSE,
                                       !.shutdown_event = TRUE,
                                       !.calls[i].pc = "returned",
                                       !.calls[i].outcome = "closed"]
    /\ RunnerOnly

\* shutdown(): market_crawler.close() raises; lines 174-176
CloseRaises ==
    /\ \E i \in 1..Len(runner.calls) :
           /\ runner.calls[i].pc = "close"
           /\ runner' = [runner EXCEPT !.calls[i].pc = "returned",
                                       !.calls[i].outcome = "error"]
    /\ RunnerOnly

\* start(): shutdown_event.wait() returns once the event is set
StartReturns ==
    /\ runner.pc = "waiting"
    /\ runner.shutdown_event
    /\ runner' = [runner EXCEPT !.pc = "returned"]
    /\ RunnerOnly

NextRunner ==
    \/ StartInitializes
    \/ CrawlerStarted
    \/ StartFails
    \/ ShutdownCalled
    \/ CloseReturns
    \/ CloseRaises
    \/ StartReturns

\* every close() that was awaited ends, by returning or by raising, and the
\* event loop resumes start() once the event it waits for is set
SpecRunner ==
    /\ InitRunner /\ [][NextRunner]_vars
    /\ WF_vars(CloseReturns \/ CloseRaises)
    /\ WF_vars(StartReturns)

ShutdownOnRunning ==
    \E i \in 1..Len(runner.calls) : runner.calls[i].running

ShutDown ==
    runner.shutdown_event /\ ~runner.is_running /\ runner.pc = "returned"

\* C29: once shutdown() is invoked on a running runner, eventually
\* shutdown_event is set, is_running is False and the pending start() has
\* returned, also when market_crawler.close() raises; a shutdown() call made
\* after that changes nothing.
C29_ShutdownCompletes ==
    /\ ShutdownOnRunning ~> ShutDown
    /\ [][(ShutDown /\ Len(runner.calls') > Len(runner.calls)) =>
            /\ runner'.is_running = runner.is_running
            /\ runner'.shutdown_event = runner.shutdown_event
            /\ runner'.pc = runner.pc
            /\ runner'.calls[Len(runner.calls')].pc = "returned"]_vars

====
